---- MODULE Spec2Model ----
(***************************************************************************)
(* Beacon-chain state transition core (eth2fastspec.py, Medalla era):      *)
(* shuffling, EpochsContext, epoch transition, block transition and the    *)
(* slot driver, as a state machine over one (state, EpochsContext)         *)
(* lineage.                                                                *)
(*                                                                         *)
(* Gwei amounts are scaled (one increment = 1000) and the configuration    *)
(* is a miniature preset so that every epoch-level mechanism is reached    *)
(* within a few slots.  Hashes, BLS signatures and Merkle proofs are the   *)
(* external collaborators of the core: a hash is a deterministic digest    *)
(* of its input, a signature or proof is a validity bit of the input.      *)
(***************************************************************************)
EXTENDS Integers, Sequences, FiniteSets, TLC

(***************************************************************************)
(* Eth2Config (miniature preset) and the imported constants.               *)
(***************************************************************************)
SLOTS_PER_EPOCH == 3
TARGET_COMMITTEE_SIZE == 1
MAX_COMMITTEES_PER_SLOT == 2
SHUFFLE_ROUND_COUNT == 2
MAX_SEED_LOOKAHEAD == 1
MIN_SEED_LOOKAHEAD == 1
MIN_PER_EPOCH_CHURN_LIMIT == 2
CHURN_LIMIT_QUOTIENT == 4
EJECTION_BALANCE == 30000
EFFECTIVE_BALANCE_INCREMENT == 1000
MAX_EFFECTIVE_BALANCE == 32000
BASE_REWARD_FACTOR == 8
PROPOSER_REWARD_QUOTIENT == 8
WHISTLEBLOWER_REWARD_QUOTIENT == 512
INACTIVITY_PENALTY_QUOTIENT == 1024
MIN_SLASHING_PENALTY_QUOTIENT == 32
MIN_EPOCHS_TO_INACTIVITY_PENALTY == 2
EPOCHS_PER_SLASHINGS_VECTOR == 4
EPOCHS_PER_HISTORICAL_VECTOR == 4
SLOTS_PER_HISTORICAL_ROOT == 6
EPOCHS_PER_ETH1_VOTING_PERIOD == 1
HYSTERESIS_QUOTIENT == 4
HYSTERESIS_DOWNWARD_MULTIPLIER == 1
HYSTERESIS_UPWARD_MULTIPLIER == 5
MIN_VALIDATOR_WITHDRAWABILITY_DELAY == 1
MIN_ATTESTATION_INCLUSION_DELAY == 1
SHARD_COMMITTEE_PERIOD == 1
MAX_DEPOSITS == 1
BASE_REWARDS_PER_EPOCH == 4
GENESIS_EPOCH == 0
\* 2**64 - 1 in the program; the largest integer of the checker here.  No
\* arithmetic is ever done on it, it is only compared.
FAR_FUTURE_EPOCH == 2147483647

(***************************************************************************)
(* Small helpers.                                                          *)
(***************************************************************************)
Max(a, b) == IF a >= b THEN a ELSE b
Min(a, b) == IF a <= b THEN a ELSE b

Range(s) == {s[i] : i \in DOMAIN s}

RECURSIVE SumSeq(_)
SumSeq(s) == IF s = <<>> THEN 0 ELSE Head(s) + SumSeq(Tail(s))

RECURSIVE Pow2(_)
Pow2(n) == IF n = 0 THEN 1 ELSE 2 * Pow2(n - 1)

\* list[i] with Python's 0-based index
At(s, i) == s[i + 1]

\* list with the 0-based entry i replaced
SetAt(s, i, v) == [s EXCEPT ![i + 1] = v]

\* s[a:b], Python slice with 0 <= a, b <= len(s)
Slice(s, a, b) == IF b <= a THEN <<>> ELSE SubSeq(s, a + 1, b)

\* ascending list of a finite set of integers
RECURSIVE SortedSeq(_)
SortedSeq(S) ==
    IF S = {} THEN <<>>
    ELSE LET m == CHOOSE x \in S : \A y \in S : x <= y
         IN <<m>> \o SortedSeq(S \ {m})

(***************************************************************************)
(* hash_eth2: an abstract digest.  The digest of an input (a tuple of      *)
(* small naturals) is a number; ByteAt gives the 32 bytes of the digest.   *)
(***************************************************************************)
RECURSIVE DigestFrom(_, _)
DigestFrom(acc, input) ==
    IF input = <<>> THEN acc
    ELSE DigestFrom((acc * 31 + Head(input) * 7 + 11) % 65521, Tail(input))

hash_eth2(input) == DigestFrom(17, input)

ByteAt(digest, k) ==
    IF k = 0 THEN digest % 256
    ELSE IF k = 1 THEN (digest \div 256) % 256
    ELSE (digest * (k + 3) + 29 * k) % 256

\* int.from_bytes(h[:8], little) % n, by Horner's rule from the high byte
RECURSIVE BytesMod(_, _, _, _)
BytesMod(digest, k, n, acc) ==
    IF k < 0 THEN acc
    ELSE BytesMod(digest, k - 1, n, (acc * 256 + ByteAt(digest, k)) % n)

HashPivot(digest, n) == BytesMod(digest, 7, n, 0)

(***************************************************************************)
(* Shuffle primitive (swap-or-not over a whole list).                      *)
(***************************************************************************)
Swap(input, i, j) == [input EXCEPT ![i + 1] = input[j + 1], ![j + 1] = input[i + 1]]

\* One mirrored half of a round: the pairs (i, j), i up, j down, while
\* i < mirror; the hash is recomputed every 256th position and the byte
\* every 8th, as the code caches them.
RECURSIVE shuffle_pairs(_, _, _, _, _, _, _, _)
shuffle_pairs(input, i, j, mirror, seed, r, source, byteV) ==
    IF ~(i < mirror) THEN input
    ELSE LET source2 == IF j % 256 = 255
                        THEN hash_eth2(<<seed, r, (j \div 256)>>)
                        ELSE source
             byteV2 == IF j % 8 = 7
                       THEN ByteAt(source2, (j % 256) \div 8)
                       ELSE byteV
             bitV == (byteV2 \div Pow2(j % 8)) % 2
             input2 == IF bitV = 1 THEN Swap(input, i, j) ELSE input
         IN shuffle_pairs(input2, i + 1, j - 1, mirror, seed, r, source2, byteV2)

\* One round around its pivot: the part below the pivot, then the part
\* above it.
shuffle_round_at(input, seed, r, pivot) ==
    LET listSize == Len(input)
        mirror1 == (pivot + 1) \div 2
        source1 == hash_eth2(<<seed, r, (pivot \div 256)>>)
        mirror2 == (pivot + listSize + 1) \div 2
        end == listSize - 1
        source2 == hash_eth2(<<seed, r, (end \div 256)>>)
    IN shuffle_pairs(
           shuffle_pairs(input, 0, pivot, mirror1, seed, r, source1,
                         ByteAt(source1, (pivot % 256) \div 8)),
           pivot + 1, end, mirror2, seed, r, source2,
           ByteAt(source2, (end % 256) \div 8))

shuffle_round(input, seed, r) ==
    shuffle_round_at(input, seed, r, HashPivot(hash_eth2(<<seed, r>>), Len(input)))

\* The rounds from r on: upwards to SHUFFLE_ROUND_COUNT - 1 when dir, downwards
\* to 0 otherwise.
RECURSIVE shuffle_rounds(_, _, _, _)
shuffle_rounds(input, seed, r, dir) ==
    IF (dir /\ r = SHUFFLE_ROUND_COUNT) \/ (~dir /\ r < 0) THEN input
    ELSE shuffle_rounds(shuffle_round(input, seed, r), seed,
                        IF dir THEN r + 1 ELSE r - 1, dir)

\* A faulty variant of _inner_shuffle_list: unshuffling runs the rounds in
\* the order of shuffling.
inner_shuffle_list_forward(input, seed, dir) ==
    IF Len(input) <= 1 THEN input
    ELSE shuffle_rounds(input, seed, 0, TRUE)

inner_shuffle_list(input, seed, dir) ==
    IF Len(input) <= 1 THEN input
    ELSE shuffle_rounds(input, seed, IF dir THEN 0 ELSE SHUFFLE_ROUND_COUNT - 1, dir)

shuffle_list(input, seed) == inner_shuffle_list(input, seed, TRUE)

unshuffle_list(input, seed) == inner_shuffle_list(input, seed, FALSE)

\* compute_shuffled_index of eth2.beacon.committee_helpers: the forward
\* swap-or-not of one index.
RECURSIVE compute_shuffled_index(_, _, _, _)
compute_shuffled_index(index, count, seed, r) ==
    IF r = SHUFFLE_ROUND_COUNT THEN index
    ELSE LET pivot == HashPivot(hash_eth2(<<seed, r>>), count)
             flip == (pivot + count - index) % count
             position == Max(index, flip)
             source == hash_eth2(<<seed, r, (position \div 256)>>)
             byte == ByteAt(source, (position % 256) \div 8)
             bit == (byte \div Pow2(position % 8)) % 2
         IN compute_shuffled_index(IF bit = 1 THEN flip ELSE index, count, seed, r + 1)

(***************************************************************************)
(* Helpers of eth2.beacon.helpers and eth2.beacon.epoch_processing_helpers *)
(* that the core imports.                                                  *)
(***************************************************************************)
compute_epoch_at_slot(slot) == slot \div SLOTS_PER_EPOCH

compute_start_slot_at_epoch(epoch) == epoch * SLOTS_PER_EPOCH

compute_activation_exit_epoch(epoch) == epoch + 1 + MAX_SEED_LOOKAHEAD

get_randao_mix(state, epoch) == At(state.randao_mixes, epoch % EPOCHS_PER_HISTORICAL_VECTOR)

\* domain types: 0 = DOMAIN_BEACON_PROPOSER, 1 = DOMAIN_BEACON_ATTESTER
get_seed(state, epoch, domain_type) ==
    hash_eth2(<<domain_type, epoch,
                get_randao_mix(state, epoch + EPOCHS_PER_HISTORICAL_VECTOR
                                            - MIN_SEED_LOOKAHEAD - 1)>>)

\* block_roots[slot % SLOTS_PER_HISTORICAL_ROOT]; the helper requires
\* slot < state.slot <= slot + SLOTS_PER_HISTORICAL_ROOT
block_root_in_range(state, slot) ==
    slot < state.slot /\ state.slot <= slot + SLOTS_PER_HISTORICAL_ROOT

get_block_root_at_slot(state, slot) == At(state.block_roots, slot % SLOTS_PER_HISTORICAL_ROOT)

get_block_root(state, epoch) == get_block_root_at_slot(state, compute_start_slot_at_epoch(epoch))

increase_balance(state, index, delta) ==
    [state EXCEPT !.balances = SetAt(@, index, At(@, index) + delta)]

decrease_balance(state, index, delta) ==
    [state EXCEPT !.balances =
        SetAt(@, index, IF delta > At(@, index) THEN 0 ELSE At(@, index) - delta)]

\* Validator.is_slashable
\* A faulty variant of is_slashable: the slashed flag is not looked at.
is_slashable_again(v, epoch) ==
    v.activation_epoch <= epoch /\ epoch < v.withdrawable_epoch

is_slashable(v, epoch) ==
    ~v.slashed /\ v.activation_epoch <= epoch /\ epoch < v.withdrawable_epoch

\* Validator.is_active
is_active(v, epoch) == v.activation_epoch <= epoch /\ epoch < v.exit_epoch

(***************************************************************************)
(* Committee computation.                                                  *)
(***************************************************************************)
compute_committee_count(active_validators_count) ==
    LET validators_per_slot == active_validators_count \div SLOTS_PER_EPOCH
        committees_per_slot == validators_per_slot \div TARGET_COMMITTEE_SIZE
        capped == IF MAX_COMMITTEES_PER_SLOT < committees_per_slot
                  THEN MAX_COMMITTEES_PER_SLOT ELSE committees_per_slot
    IN IF capped = 0 THEN 1 ELSE capped

\* (index, activation_epoch, exit_epoch) per validator
indices_bounded(state) ==
    [i \in 1..Len(state.validators) |->
        <<i - 1, state.validators[i].activation_epoch, state.validators[i].exit_epoch>>]

RECURSIVE active_of(_, _)
active_of(bounded, epoch) ==
    IF bounded = <<>> THEN <<>>
    ELSE LET b == Head(bounded)
         IN (IF b[2] <= epoch /\ epoch < b[3] THEN <<b[1]>> ELSE <<>>)
            \o active_of(Tail(bounded), epoch)

\* A faulty variant of slice_committee: every committee gets the rounded-down
\* share of the list.
slice_committee_even(shuffling, active_validator_count, committees_per_slot, slot, comm_index) ==
    LET committee_count == committees_per_slot * SLOTS_PER_EPOCH
        index == (slot * committees_per_slot) + comm_index
        size == active_validator_count \div committee_count
    IN Slice(shuffling, index * size, (index + 1) * size)

slice_committee(shuffling, active_validator_count, committees_per_slot, slot, comm_index) ==
    LET committee_count == committees_per_slot * SLOTS_PER_EPOCH
        index == (slot * committees_per_slot) + comm_index
        start_offset == (active_validator_count * index) \div committee_count
        end_offset == (active_validator_count * (index + 1)) \div committee_count
    IN Slice(shuffling, start_offset, end_offset)

\* the committees of ShufflingEpoch.__init__ from the shuffled list
shuffling_committees(shuffling, active_validator_count) ==
    LET committees_per_slot == compute_committee_count(active_validator_count)
    IN [slot \in 1..SLOTS_PER_EPOCH |->
           [c \in 1..committees_per_slot |->
               slice_committee(shuffling, active_validator_count,
                               committees_per_slot, slot - 1, c - 1)]]

shuffling_epoch_of(epoch, active_indices, shuffling) ==
    [epoch |-> epoch,
     active_indices |-> active_indices,
     shuffling |-> shuffling,
     committees |-> shuffling_committees(shuffling, Len(active_indices))]

shuffling_epoch_from(epoch, active_indices, seed) ==
    shuffling_epoch_of(epoch, active_indices, unshuffle_list(active_indices, seed))

ShufflingEpoch(state, bounded, epoch) ==
    shuffling_epoch_from(epoch, active_of(bounded, epoch), get_seed(state, epoch, 1))

\* The rejection sampling of compute_proposer_index from candidate i on;
\* indices is not empty.
RECURSIVE proposer_from(_, _, _, _)
\* the acceptance test of candidate i of compute_proposer_index
proposer_try(state, indices, seed, i, candidate_index) ==
    LET random_byte == ByteAt(hash_eth2(<<seed, i \div 32>>), i % 32)
        effective_balance == At(state.validators, candidate_index).effective_balance
    IN IF effective_balance * 255 >= MAX_EFFECTIVE_BALANCE * random_byte
       THEN candidate_index
       ELSE proposer_from(state, indices, seed, i + 1)

proposer_from(state, indices, seed, i) ==
    proposer_try(state, indices, seed, i,
        At(indices, compute_shuffled_index(i % Len(indices), Len(indices), seed, 0)))

compute_proposer_index(state, indices, seed) ==
    IF Len(indices) = 0
    THEN [ok |-> FALSE, index |-> -1]
    ELSE [ok |-> TRUE, index |-> proposer_from(state, indices, seed, 0)]

(***************************************************************************)
(* EpochsContext.                                                          *)
(***************************************************************************)
None == [epoch |-> -1, active_indices |-> <<>>, shuffling |-> <<>>, committees |-> <<>>]

EpochsContext ==
    [pubkey2index |-> <<>>,
     index2pubkey |-> <<>>,
     proposers |-> <<>>,
     previous_shuffling |-> None,
     current_shuffling |-> None,
     next_shuffling |-> None]

\* The fields of an EpochsContext that the code changes in place
\* (self.pubkey2index[pubkey] = index, self.index2pubkey.append(pubkey));
\* every other field is only ever bound to a new object.
InPlaceFields == {"pubkey2index", "index2pubkey"}

\* A faulty variant of copy_shares: the pubkey tables are taken over without
\* .copy().
copy_shares_tables == {"pubkey2index", "index2pubkey", "proposers", "previous_shuffling",
                       "current_shuffling", "next_shuffling"}

\* copy(): the fields of the clone that are the objects of the original
copy_shares == {"proposers", "previous_shuffling", "current_shuffling", "next_shuffling"}

\* What a context holds after a call changed another context from before to
\* after, where shares names the fields in which both hold one object.
seen_through(held, shares, after) ==
    [f \in DOMAIN held |-> IF f \in shares \cap InPlaceFields THEN after[f] ELSE held[f]]

\* The fields still shared after that call: a field bound to a new object is
\* shared no longer.
still_shared(shares, before, after) ==
    {f \in shares : f \in InPlaceFields \/ after[f] = before[f]}

\* dict[key] = value
DictSet(d, key, value) ==
    [k \in (DOMAIN d) \cup {key} |-> IF k = key THEN value ELSE d[k]]

RECURSIVE sync_from(_, _, _)
sync_from(ctx, state, i) ==
    IF i >= Len(state.validators) THEN ctx
    ELSE LET pubkey == At(state.validators, i).pubkey
         IN sync_from([ctx EXCEPT !.pubkey2index = DictSet(@, pubkey, i),
                                  !.index2pubkey = Append(@, pubkey)],
                      state, i + 1)

sync_pubkeys(ctx, state) ==
    LET current_count == Cardinality(DOMAIN ctx.pubkey2index)
    IN IF current_count # Len(ctx.index2pubkey)
       THEN [ok |-> FALSE, ctx |-> ctx]
       ELSE [ok |-> TRUE, ctx |-> sync_from(ctx, state, current_count)]

\* self.proposers = [...]: nothing is assigned where a pick raised
set_proposers(ctx, picks) ==
    IF \E k \in DOMAIN picks : ~picks[k].ok
    THEN [ok |-> FALSE, ctx |-> ctx]
    ELSE [ok |-> TRUE,
          ctx |-> [ctx EXCEPT !.proposers = [k \in DOMAIN picks |-> picks[k].index]]]

proposers_of(ctx, state, epoch_seed, start_slot) ==
    [k \in 1..SLOTS_PER_EPOCH |->
        compute_proposer_index(state, ctx.current_shuffling.active_indices,
                               hash_eth2(<<epoch_seed, start_slot + k - 1>>))]

reset_proposers(ctx, state) ==
    set_proposers(ctx,
        proposers_of(ctx, state, get_seed(state, ctx.current_shuffling.epoch, 0),
                     compute_start_slot_at_epoch(ctx.current_shuffling.epoch)))

\* load_state once the pubkeys are synced and the current shuffling is made
load_shufflings(synced, state, current_epoch, current) ==
    LET previous_epoch == IF current_epoch = GENESIS_EPOCH THEN GENESIS_EPOCH
                          ELSE current_epoch - 1
        next_epoch == current_epoch + 1
        bounded == indices_bounded(state)
    IN IF ~synced.ok THEN synced
       ELSE reset_proposers(
                [synced.ctx EXCEPT
                    !.current_shuffling = current,
                    !.previous_shuffling =
                        IF previous_epoch = current_epoch THEN current
                        ELSE ShufflingEpoch(state, bounded, previous_epoch),
                    !.next_shuffling = ShufflingEpoch(state, bounded, next_epoch)],
                state)

load_state(ctx, state) ==
    load_shufflings(sync_pubkeys(ctx, state), state, compute_epoch_at_slot(state.slot),
        ShufflingEpoch(state, indices_bounded(state), compute_epoch_at_slot(state.slot)))

\* A faulty variant of rotate_epochs: the next epoch is taken from the
\* current shuffling before it is replaced.
rotate_epochs_stale_next(ctx, state) ==
    reset_proposers(
        [ctx EXCEPT !.previous_shuffling = ctx.current_shuffling,
                    !.current_shuffling = ctx.next_shuffling,
                    !.next_shuffling =
                        ShufflingEpoch(state, indices_bounded(state),
                                       ctx.current_shuffling.epoch + 1)],
        state)

rotate_epochs(ctx, state) ==
    reset_proposers(
        [ctx EXCEPT !.previous_shuffling = ctx.current_shuffling,
                    !.current_shuffling = ctx.next_shuffling,
                    !.next_shuffling =
                        ShufflingEpoch(state, indices_bounded(state),
                                       ctx.next_shuffling.epoch + 1)],
        state)

\* A faulty variant of _get_slot_comms: the next shuffling is not consulted.
get_slot_comms_without_next(ctx, slot) ==
    LET epoch == compute_epoch_at_slot(slot)
        epoch_slot == slot % SLOTS_PER_EPOCH
    IN IF epoch = ctx.previous_shuffling.epoch
       THEN [ok |-> TRUE, comms |-> At(ctx.previous_shuffling.committees, epoch_slot)]
       ELSE IF epoch = ctx.current_shuffling.epoch
       THEN [ok |-> TRUE, comms |-> At(ctx.current_shuffling.committees, epoch_slot)]
       ELSE [ok |-> FALSE, comms |-> <<>>]

\* _get_slot_comms: ok is FALSE where the code raises
get_slot_comms(ctx, slot) ==
    LET epoch == compute_epoch_at_slot(slot)
        epoch_slot == slot % SLOTS_PER_EPOCH
    IN IF epoch = ctx.previous_shuffling.epoch
       THEN [ok |-> TRUE, comms |-> At(ctx.previous_shuffling.committees, epoch_slot)]
       ELSE IF epoch = ctx.current_shuffling.epoch
       THEN [ok |-> TRUE, comms |-> At(ctx.current_shuffling.committees, epoch_slot)]
       ELSE IF epoch = ctx.next_shuffling.epoch
       THEN [ok |-> TRUE, comms |-> At(ctx.next_shuffling.committees, epoch_slot)]
       ELSE [ok |-> FALSE, comms |-> <<>>]

\* slot_comms[index] of get_beacon_committee
committee_at(slot_comms, index) ==
    IF ~slot_comms.ok THEN [ok |-> FALSE, committee |-> <<>>]
    ELSE IF index >= Len(slot_comms.comms) THEN [ok |-> FALSE, committee |-> <<>>]
    ELSE [ok |-> TRUE, committee |-> At(slot_comms.comms, index)]

get_beacon_committee(ctx, slot, index) == committee_at(get_slot_comms(ctx, slot), index)

committee_count_of(slot_comms) == [ok |-> slot_comms.ok, count |-> Len(slot_comms.comms)]

get_committee_count_at_slot(ctx, slot) == committee_count_of(get_slot_comms(ctx, slot))

\* A faulty variant of get_beacon_proposer: slots of the cached previous and
\* next epochs are answered from the proposers of the current epoch.
get_beacon_proposer_of_cached(ctx, slot) ==
    LET epoch == compute_epoch_at_slot(slot)
    IN IF epoch \notin {ctx.previous_shuffling.epoch, ctx.current_shuffling.epoch,
                        ctx.next_shuffling.epoch}
       THEN [ok |-> FALSE, index |-> -1]
       ELSE [ok |-> TRUE, index |-> At(ctx.proposers, slot % SLOTS_PER_EPOCH)]

get_beacon_proposer(ctx, slot) ==
    LET epoch == compute_epoch_at_slot(slot)
    IN IF epoch # ctx.current_shuffling.epoch
       THEN [ok |-> FALSE, index |-> -1]
       ELSE [ok |-> TRUE, index |-> At(ctx.proposers, slot % SLOTS_PER_EPOCH)]

(***************************************************************************)
(* EpochProcess: the one-pass summary of an epoch boundary.                *)
(***************************************************************************)
FLAG_PREV_SOURCE_ATTESTER == 1
FLAG_PREV_TARGET_ATTESTER == 2
FLAG_PREV_HEAD_ATTESTER == 4
FLAG_CURR_SOURCE_ATTESTER == 8
FLAG_CURR_TARGET_ATTESTER == 16
FLAG_CURR_HEAD_ATTESTER == 32
FLAG_UNSLASHED == 64
FLAG_ELIGIBLE_ATTESTER == 128

HasBit(flags, bit) == (flags \div bit) % 2 = 1

\* flags | bit, for a single-bit marker
OrBit(flags, bit) == IF HasBit(flags, bit) THEN flags ELSE flags + bit

\* flags & markers == markers
has_markers(flags, markers) ==
    \A k \in 0..7 : HasBit(markers, Pow2(k)) => HasBit(flags, Pow2(k))

FlatValidator(v) ==
    [effective_balance |-> v.effective_balance,
     slashed |-> v.slashed,
     activation_eligibility_epoch |-> v.activation_eligibility_epoch,
     activation_epoch |-> v.activation_epoch,
     exit_epoch |-> v.exit_epoch,
     withdrawable_epoch |-> v.withdrawable_epoch]

AttesterStatus(v) ==
    [flags |-> 0, proposer_index |-> -1, inclusion_delay |-> 0,
     validator |-> v, active |-> FALSE]

\* a faulty variant: the quotient alone, without the minimum
get_churn_limit_unclamped(active_validator_count) ==
    active_validator_count \div CHURN_LIMIT_QUOTIENT

get_churn_limit(active_validator_count) ==
    Max(MIN_PER_EPOCH_CHURN_LIMIT, active_validator_count \div CHURN_LIMIT_QUOTIENT)

is_active_flat_validator(v, epoch) == v.activation_epoch <= epoch /\ epoch < v.exit_epoch

\* The per-validator part of the first pass of prepare_epoch_process_state.
first_pass_status(tree_v, prev_epoch, current_epoch) ==
    LET v == FlatValidator(tree_v)
        f1 == IF v.slashed THEN 0 ELSE FLAG_UNSLASHED
        f2 == IF is_active_flat_validator(v, prev_epoch)
                 \/ (v.slashed /\ (prev_epoch + 1 < v.withdrawable_epoch))
              THEN OrBit(f1, FLAG_ELIGIBLE_ATTESTER) ELSE f1
    IN [AttesterStatus(v) EXCEPT !.flags = f2,
                                 !.active = is_active_flat_validator(v, current_epoch)]

\* the ascending list of the indices i in 0..n-1 with P(i)
indices_where(n, P(_)) == SortedSeq({i \in 0..(n - 1) : P(i)})

\* A faulty variant of sort_by_eligibility: the order of the indices.
sort_by_index(S, statuses) == SortedSeq(S)

\* sorted(indices, key = (activation_eligibility_epoch, i))
RECURSIVE sort_by_eligibility(_, _)
sort_by_eligibility(S, statuses) ==
    IF S = {} THEN <<>>
    ELSE LET key(i) == At(statuses, i).validator.activation_eligibility_epoch
             m == CHOOSE x \in S : \A y \in S :
                      key(x) < key(y) \/ (key(x) = key(y) /\ x <= y)
         IN <<m>> \o sort_by_eligibility(S \ {m}, statuses)

\* exit_queue_end of the first pass: the largest exit_epoch that is set,
\* and at least compute_activation_exit_epoch(current_epoch)
RECURSIVE exit_queue_end_of(_, _)
exit_queue_end_of(validators, acc) ==
    IF validators = <<>> THEN acc
    ELSE LET v == Head(validators)
         IN exit_queue_end_of(Tail(validators),
                IF v.exit_epoch # FAR_FUTURE_EPOCH /\ v.exit_epoch > acc
                THEN v.exit_epoch ELSE acc)

\* A faulty variant of mark_participants: the earliest inclusion is told by
\* the delay alone, not by proposer_index = -1.
mark_participants_by_delay(state, statuses, att, is_prev, actual_target_block_root, flags, looked) ==
    LET att_voted_target_root == att.data.target.root = actual_target_block_root
        att_voted_head_root ==
            att.data.beacon_block_root = get_block_root_at_slot(state, att.data.slot)
        committee == looked.committee
        participants == {committee[i] : i \in {k \in DOMAIN committee : att.aggregation_bits[k]}}
        earliest(status) ==
            IF is_prev
               /\ status.inclusion_delay > att.inclusion_delay
            THEN [status EXCEPT !.proposer_index = att.proposer_index,
                                !.inclusion_delay = att.inclusion_delay]
            ELSE status
        with_source(status) == [status EXCEPT !.flags = OrBit(@, flags[1])]
        with_target(status) ==
            IF att_voted_target_root THEN [status EXCEPT !.flags = OrBit(@, flags[2])]
            ELSE status
        with_head(status) ==
            IF att_voted_target_root /\ att_voted_head_root
            THEN [status EXCEPT !.flags = OrBit(@, flags[3])]
            ELSE status
    IN IF ~looked.ok \/ Len(att.aggregation_bits) < Len(committee)
          \/ ~block_root_in_range(state, att.data.slot)
       THEN [ok |-> FALSE, statuses |-> statuses]
       ELSE [ok |-> TRUE,
             statuses |-> [i \in DOMAIN statuses |->
                              IF (i - 1) \in participants
                              THEN with_head(with_target(with_source(earliest(statuses[i]))))
                              ELSE statuses[i]]]

\* The statuses after one PendingAttestation of the given epoch, its
\* committee looked up (status_process_epoch's loop body); flags are the
\* source, target and head markers of the epoch.  ok is FALSE where the
\* committee lookup or a bit lookup raises.
mark_participants(state, statuses, att, is_prev, actual_target_block_root, flags, looked) ==
    LET att_voted_target_root == att.data.target.root = actual_target_block_root
        att_voted_head_root ==
            att.data.beacon_block_root = get_block_root_at_slot(state, att.data.slot)
        committee == looked.committee
        participants == {committee[i] : i \in {k \in DOMAIN committee : att.aggregation_bits[k]}}
        earliest(status) ==
            IF is_prev
               /\ (status.proposer_index = -1 \/ status.inclusion_delay > att.inclusion_delay)
            THEN [status EXCEPT !.proposer_index = att.proposer_index,
                                !.inclusion_delay = att.inclusion_delay]
            ELSE status
        with_source(status) == [status EXCEPT !.flags = OrBit(@, flags[1])]
        with_target(status) ==
            IF att_voted_target_root THEN [status EXCEPT !.flags = OrBit(@, flags[2])]
            ELSE status
        with_head(status) ==
            IF att_voted_target_root /\ att_voted_head_root
            THEN [status EXCEPT !.flags = OrBit(@, flags[3])]
            ELSE status
    IN IF ~looked.ok \/ Len(att.aggregation_bits) < Len(committee)
          \/ ~block_root_in_range(state, att.data.slot)
       THEN [ok |-> FALSE, statuses |-> statuses]
       ELSE [ok |-> TRUE,
             statuses |-> [i \in DOMAIN statuses |->
                              IF (i - 1) \in participants
                              THEN with_head(with_target(with_source(earliest(statuses[i]))))
                              ELSE statuses[i]]]

apply_attestation(ctx, state, statuses, att, is_prev, actual_target_block_root, flags) ==
    mark_participants(state, statuses, att, is_prev, actual_target_block_root, flags,
                      get_beacon_committee(ctx, att.data.slot, att.data.index))

\* the loop of status_process_epoch over the attestations; done is the
\* result so far
RECURSIVE apply_attestations(_, _, _, _, _, _, _)
apply_attestations(ctx, state, done, attestations, is_prev, root, flags) ==
    IF attestations = <<>> \/ ~done.ok THEN done
    ELSE apply_attestations(ctx, state,
             apply_attestation(ctx, state, done.statuses, Head(attestations), is_prev,
                               root, flags),
             Tail(attestations), is_prev, root, flags)

status_process_epoch(ctx, state, statuses, attestations, epoch, prev_epoch, flags) ==
    IF ~block_root_in_range(state, compute_start_slot_at_epoch(epoch))
    THEN [ok |-> FALSE, statuses |-> statuses]
    ELSE apply_attestations(ctx, state, [ok |-> TRUE, statuses |-> statuses], attestations,
                            epoch = prev_epoch,
                            get_block_root_at_slot(state, compute_start_slot_at_epoch(epoch)),
                            flags)

\* sum of the effective balances of the statuses with P
stake_where(statuses, P(_)) ==
    SumSeq([i \in DOMAIN statuses |->
               IF P(statuses[i]) THEN statuses[i].validator.effective_balance ELSE 0])

\* the first pass of prepare_epoch_process_state over the registry
first_pass(state, prev_epoch, current_epoch) ==
    [i \in 1..Len(state.validators) |->
        first_pass_status(state.validators[i], prev_epoch, current_epoch)]

\* the pass over state.previous_epoch_attestations
previous_pass(ctx, state, statuses) ==
    IF state.slot > 0
    THEN status_process_epoch(ctx, state, statuses, state.previous_epoch_attestations,
             ctx.previous_shuffling.epoch, ctx.previous_shuffling.epoch,
             <<FLAG_PREV_SOURCE_ATTESTER, FLAG_PREV_TARGET_ATTESTER,
               FLAG_PREV_HEAD_ATTESTER>>)
    ELSE [ok |-> TRUE, statuses |-> statuses]

\* the pass over state.current_epoch_attestations
current_pass(ctx, state, prev) ==
    IF ~prev.ok THEN prev
    ELSE IF compute_start_slot_at_epoch(ctx.current_shuffling.epoch) < state.slot
    THEN status_process_epoch(ctx, state, prev.statuses, state.current_epoch_attestations,
             ctx.current_shuffling.epoch, ctx.previous_shuffling.epoch,
             <<FLAG_CURR_SOURCE_ATTESTER, FLAG_CURR_TARGET_ATTESTER,
               FLAG_CURR_HEAD_ATTESTER>>)
    ELSE prev

\* The EpochProcess from the statuses of the first pass (statuses0) and the
\* result of the attestation passes (curr).
epoch_process_of(ctx, state, statuses0, curr) ==
    LET current_epoch == ctx.current_shuffling.epoch
        prev_epoch == ctx.previous_shuffling.epoch
        slashings_epoch == current_epoch + (EPOCHS_PER_SLASHINGS_VECTOR \div 2)
        n == Len(state.validators)
        val(i) == At(statuses0, i).validator
        to_slash(i) == val(i).slashed /\ slashings_epoch = val(i).withdrawable_epoch
        to_set_eligibility(i) ==
            val(i).activation_eligibility_epoch = FAR_FUTURE_EPOCH
            /\ val(i).effective_balance = MAX_EFFECTIVE_BALANCE
        to_maybe_activate(i) ==
            val(i).activation_epoch = FAR_FUTURE_EPOCH
            /\ val(i).activation_eligibility_epoch <= current_epoch
        to_eject(i) ==
            At(statuses0, i).active
            /\ val(i).effective_balance <= EJECTION_BALANCE
            /\ val(i).exit_epoch = FAR_FUTURE_EPOCH
        is_act(st) == st.active
        total0 == stake_where(statuses0, is_act)
        active_count == Cardinality({i \in 1..n : statuses0[i].active})
        exit_queue_end0 == exit_queue_end_of(state.validators,
                                             compute_activation_exit_epoch(current_epoch))
        exit_queue_end_churn0 ==
            Cardinality({i \in 1..n : statuses0[i].validator.exit_epoch = exit_queue_end0})
        churn_limit == get_churn_limit(active_count)
        full == exit_queue_end_churn0 >= churn_limit
        prev_source(st) ==
            has_markers(st.flags, FLAG_PREV_SOURCE_ATTESTER + FLAG_UNSLASHED)
        prev_target(st) == prev_source(st) /\ has_markers(st.flags, FLAG_PREV_TARGET_ATTESTER)
        prev_head(st) == prev_target(st) /\ has_markers(st.flags, FLAG_PREV_HEAD_ATTESTER)
        curr_target(st) ==
            has_markers(st.flags, FLAG_CURR_TARGET_ATTESTER + FLAG_UNSLASHED)
    IN [ok |-> curr.ok,
        process |->
          [current_epoch |-> current_epoch,
           prev_epoch |-> prev_epoch,
           statuses |-> curr.statuses,
           total_active_stake |-> IF total0 < EFFECTIVE_BALANCE_INCREMENT
                                  THEN EFFECTIVE_BALANCE_INCREMENT ELSE total0,
           prev_epoch_unslashed_stake |->
              [source_stake |-> Max(stake_where(curr.statuses, prev_source),
                                    EFFECTIVE_BALANCE_INCREMENT),
               target_stake |-> Max(stake_where(curr.statuses, prev_target),
                                    EFFECTIVE_BALANCE_INCREMENT),
               head_stake |-> Max(stake_where(curr.statuses, prev_head),
                                  EFFECTIVE_BALANCE_INCREMENT)],
           curr_epoch_unslashed_target_stake |->
               Max(stake_where(curr.statuses, curr_target), EFFECTIVE_BALANCE_INCREMENT),
           active_validators |-> active_count,
           indices_to_slash |-> indices_where(n, to_slash),
           indices_to_set_activation_eligibility |-> indices_where(n, to_set_eligibility),
           indices_to_maybe_activate |->
               sort_by_eligibility({i \in 0..(n - 1) : to_maybe_activate(i)}, statuses0),
           indices_to_eject |-> indices_where(n, to_eject),
           exit_queue_end |-> IF full THEN exit_queue_end0 + 1 ELSE exit_queue_end0,
           exit_queue_end_churn |-> IF full THEN 0 ELSE exit_queue_end_churn0,
           churn_limit |-> churn_limit]]

epoch_process_from(ctx, state, statuses0) ==
    epoch_process_of(ctx, state, statuses0,
                     current_pass(ctx, state, previous_pass(ctx, state, statuses0)))

prepare_epoch_process_state(ctx, state) ==
    epoch_process_from(ctx, state,
        first_pass(state, ctx.previous_shuffling.epoch, ctx.current_shuffling.epoch))

(***************************************************************************)
(* Epoch transition.                                                       *)
(***************************************************************************)
RECURSIVE isqrt_loop(_, _, _)
isqrt_loop(n, x, y) ==
    IF y < x THEN isqrt_loop(n, y, (y + n \div y) \div 2) ELSE x

integer_squareroot(n) == isqrt_loop(n, n, (n + 1) \div 2)

Checkpoint(epoch, root) == [epoch |-> epoch, root |-> root]

\* A faulty variant of justified_checkpoint: the slot of the state is taken
\* for the epoch.
justified_checkpoint_of_slot(state, epoch) ==
    Checkpoint(state.slot, get_block_root(state, epoch))

\* Checkpoint.create(epoch=epoch, root=get_block_root(state, epoch, ...))
justified_checkpoint(state, epoch) == Checkpoint(epoch, get_block_root(state, epoch))

\* A faulty variant of skips_justification: only the genesis epoch is set
\* apart.
skips_justification_in_genesis(current_epoch) == current_epoch <= GENESIS_EPOCH

\* if current_epoch <= GENESIS_EPOCH + 1: return state
skips_justification(current_epoch) == current_epoch <= GENESIS_EPOCH + 1

\* A faulty variant of shifted_bits: the old bits stay where they were.
shifted_bits_in_place(old_bits, justify_prev, justify_curr) ==
    <<justify_curr, justify_prev \/ old_bits[2], old_bits[3], old_bits[4]>>

\* bits[1:] = bits[:-1]; bits[0] = False; then bits[1] = True and
\* bits[0] = True of the two justifications
shifted_bits(old_bits, justify_prev, justify_curr) ==
    <<justify_curr, justify_prev \/ old_bits[1], old_bits[2], old_bits[3]>>

\* A faulty variant of finalized_by_rules: the first rule that matches wins.
finalized_by_first_rule(bits, old_previous, old_current, current_epoch, finalized) ==
    IF bits[2] /\ bits[3] /\ bits[4] /\ old_previous.epoch + 3 = current_epoch
    THEN old_previous
    ELSE IF bits[2] /\ bits[3] /\ old_previous.epoch + 2 = current_epoch
    THEN old_previous
    ELSE IF bits[1] /\ bits[2] /\ bits[3] /\ old_current.epoch + 2 = current_epoch
    THEN old_current
    ELSE IF bits[1] /\ bits[2] /\ old_current.epoch + 1 = current_epoch
    THEN old_current
    ELSE finalized

\* A faulty variant of finalized_by_rules: without a match the checkpoint is
\* that of genesis.
finalized_or_genesis(bits, old_previous, old_current, current_epoch, finalized) ==
    finalized_by_first_rule(bits, old_previous, old_current, current_epoch,
                            Checkpoint(GENESIS_EPOCH, 0))

\* the four `if` of "Process finalizations", each setting
\* finalized_checkpoint over the ones before it
finalized_by_rules(bits, old_previous, old_current, current_epoch, finalized) ==
    LET f1 == IF bits[2] /\ bits[3] /\ bits[4] /\ old_previous.epoch + 3 = current_epoch
              THEN old_previous ELSE finalized
        f2 == IF bits[2] /\ bits[3] /\ old_previous.epoch + 2 = current_epoch
              THEN old_previous ELSE f1
        f3 == IF bits[1] /\ bits[2] /\ bits[3] /\ old_current.epoch + 2 = current_epoch
              THEN old_current ELSE f2
    IN IF bits[1] /\ bits[2] /\ old_current.epoch + 1 = current_epoch
       THEN old_current ELSE f3

process_justification_and_finalization(process, state) ==
    LET previous_epoch == process.prev_epoch
        current_epoch == process.current_epoch
        old_previous_justified_checkpoint == state.previous_justified_checkpoint
        old_current_justified_checkpoint == state.current_justified_checkpoint
        old_bits == state.justification_bits
        justify_prev == process.prev_epoch_unslashed_stake.target_stake * 3
                        >= process.total_active_stake * 2
        justify_curr == process.curr_epoch_unslashed_target_stake * 3
                        >= process.total_active_stake * 2
        bits == shifted_bits(old_bits, justify_prev, justify_curr)
        s1 == [state EXCEPT !.previous_justified_checkpoint = state.current_justified_checkpoint]
        s2 == IF justify_prev
              THEN [s1 EXCEPT !.current_justified_checkpoint =
                        justified_checkpoint(s1, previous_epoch)]
              ELSE s1
        s3 == IF justify_curr
              THEN [s2 EXCEPT !.current_justified_checkpoint =
                        justified_checkpoint(s2, current_epoch)]
              ELSE s2
        s4 == [s3 EXCEPT !.justification_bits = bits]
        f4 == [s4 EXCEPT !.finalized_checkpoint =
                  finalized_by_rules(bits, old_previous_justified_checkpoint,
                                     old_current_justified_checkpoint, current_epoch, @)]
        roots_ok ==
            /\ justify_prev =>
                 block_root_in_range(state, compute_start_slot_at_epoch(previous_epoch))
            /\ justify_curr =>
                 block_root_in_range(state, compute_start_slot_at_epoch(current_epoch))
    IN IF skips_justification(current_epoch) THEN [ok |-> TRUE, state |-> state]
       ELSE IF ~roots_ok \/ Len(bits) # 4 THEN [ok |-> FALSE, state |-> state]
       ELSE [ok |-> TRUE, state |-> f4]

\* A faulty variant of PyIndex: every index is the last entry.
PyIndex_last(i, n) == n - 1

\* list[i] = list[i] + v with Python's negative indices (list[-1] is the
\* last entry)
PyIndex(i, n) == IF i < 0 THEN i + n ELSE i

\* The five Deltas of get_attestation_rewards_and_penalties; ok is FALSE
\* where the code divides by an inclusion_delay of zero.
get_attestation_rewards_and_penalties(process, state) ==
    LET statuses == process.statuses
        n == Len(statuses)
        increment == EFFECTIVE_BALANCE_INCREMENT
        total_balance0 == Max(process.total_active_stake, increment)
        balance_sq_root == integer_squareroot(total_balance0)
        finality_delay == process.prev_epoch - state.finalized_checkpoint.epoch
        is_inactivity_leak == finality_delay > MIN_EPOCHS_TO_INACTIVITY_PENALTY
        total_balance == total_balance0 \div increment
        prev_epoch_source_stake ==
            Max(process.prev_epoch_unslashed_stake.source_stake, increment) \div increment
        prev_epoch_target_stake ==
            Max(process.prev_epoch_unslashed_stake.target_stake, increment) \div increment
        prev_epoch_head_stake ==
            Max(process.prev_epoch_unslashed_stake.head_stake, increment) \div increment
        eff(i) == statuses[i].validator.effective_balance
        base_reward(i) ==
            ((eff(i) * BASE_REWARD_FACTOR) \div balance_sq_root) \div BASE_REWARDS_PER_EPOCH
        proposer_reward(i) == base_reward(i) \div PROPOSER_REWARD_QUOTIENT
        marked(i, flag) == has_markers(statuses[i].flags, flag + FLAG_UNSLASHED)
        eligible(i) == HasBit(statuses[i].flags, FLAG_ELIGIBLE_ATTESTER)
        included(i) == marked(i, FLAG_PREV_SOURCE_ATTESTER)
        reward_of(i, flag, stake) ==
            IF eligible(i) /\ marked(i, flag)
            THEN (IF is_inactivity_leak THEN base_reward(i)
                  ELSE (base_reward(i) * stake) \div total_balance)
            ELSE 0
        penalty_of(i, flag) ==
            IF eligible(i) /\ ~marked(i, flag) THEN base_reward(i) ELSE 0
        \* rewards[status.proposer_index] += proposer_reward, over all included i
        proposer_share(k) ==
            SumSeq([i \in 1..n |->
                IF included(i) /\ PyIndex(statuses[i].proposer_index, n) = k - 1
                THEN proposer_reward(i) ELSE 0])
        attester_share(i) ==
            IF included(i)
            THEN (base_reward(i) - proposer_reward(i)) \div statuses[i].inclusion_delay
            ELSE 0
        leak_penalty(i) ==
            IF eligible(i) /\ is_inactivity_leak
            THEN (base_reward(i) * BASE_REWARDS_PER_EPOCH - proposer_reward(i))
                 + (IF ~marked(i, FLAG_PREV_TARGET_ATTESTER)
                    THEN (eff(i) * finality_delay) \div INACTIVITY_PENALTY_QUOTIENT
                    ELSE 0)
            ELSE 0
        zeros == [i \in 1..n |-> 0]
        index_ok ==
            \A i \in 1..n : included(i) =>
                /\ statuses[i].inclusion_delay # 0
                /\ PyIndex(statuses[i].proposer_index, n) \in 0..(n - 1)
    IN [ok |-> index_ok,
        source |-> [rewards |-> [i \in 1..n |->
                        reward_of(i, FLAG_PREV_SOURCE_ATTESTER, prev_epoch_source_stake)],
                    penalties |-> [i \in 1..n |-> penalty_of(i, FLAG_PREV_SOURCE_ATTESTER)]],
        target |-> [rewards |-> [i \in 1..n |->
                        reward_of(i, FLAG_PREV_TARGET_ATTESTER, prev_epoch_target_stake)],
                    penalties |-> [i \in 1..n |-> penalty_of(i, FLAG_PREV_TARGET_ATTESTER)]],
        head |-> [rewards |-> [i \in 1..n |->
                        reward_of(i, FLAG_PREV_HEAD_ATTESTER, prev_epoch_head_stake)],
                  penalties |-> [i \in 1..n |-> penalty_of(i, FLAG_PREV_HEAD_ATTESTER)]],
        inclusion_delay |->
            [rewards |-> IF index_ok
                         THEN [i \in 1..n |-> proposer_share(i) + attester_share(i)]
                         ELSE zeros,
             penalties |-> [i \in 1..n |-> leak_penalty(i)]],
        inactivity |-> [rewards |-> zeros, penalties |-> zeros]]

add_rewards(new_balances, deltas) ==
    [i \in DOMAIN new_balances |->
        IF i \in DOMAIN deltas.rewards THEN new_balances[i] + deltas.rewards[i]
        ELSE new_balances[i]]

add_penalties(new_balances, deltas) ==
    [i \in DOMAIN new_balances |->
        IF i \in DOMAIN deltas.penalties
        THEN (IF deltas.penalties[i] > new_balances[i] THEN 0
              ELSE new_balances[i] - deltas.penalties[i])
        ELSE new_balances[i]]

\* A faulty variant of apply_deltas: the genesis epoch is not set apart.
apply_deltas_from_genesis(process, state, res) ==
    LET r1 == add_rewards(state.balances, res.source)
        r2 == add_rewards(r1, res.target)
        r3 == add_rewards(r2, res.head)
        r4 == add_rewards(r3, res.inclusion_delay)
        r5 == add_rewards(r4, res.inactivity)
        p1 == add_penalties(r5, res.source)
        p2 == add_penalties(p1, res.target)
        p3 == add_penalties(p2, res.head)
        p4 == add_penalties(p3, res.inclusion_delay)
        p5 == add_penalties(p4, res.inactivity)
    IN IF ~res.ok \/ Len(process.statuses) > Len(state.balances)
       THEN [ok |-> FALSE, state |-> state]
       ELSE [ok |-> TRUE, state |-> [state EXCEPT !.balances = p5]]

\* the rewards of the five Deltas, then their penalties
apply_deltas(process, state, res) ==
    LET r1 == add_rewards(state.balances, res.source)
        r2 == add_rewards(r1, res.target)
        r3 == add_rewards(r2, res.head)
        r4 == add_rewards(r3, res.inclusion_delay)
        r5 == add_rewards(r4, res.inactivity)
        p1 == add_penalties(r5, res.source)
        p2 == add_penalties(p1, res.target)
        p3 == add_penalties(p2, res.head)
        p4 == add_penalties(p3, res.inclusion_delay)
        p5 == add_penalties(p4, res.inactivity)
    IN IF process.current_epoch = GENESIS_EPOCH THEN [ok |-> TRUE, state |-> state]
       ELSE IF ~res.ok \/ Len(process.statuses) > Len(state.balances)
       THEN [ok |-> FALSE, state |-> state]
       ELSE [ok |-> TRUE, state |-> [state EXCEPT !.balances = p5]]

process_rewards_and_penalties(process, state) ==
    apply_deltas(process, state, get_attestation_rewards_and_penalties(process, state))

\* A faulty variant of eject_all: the churn is not counted.
eject_all_at_once(validators, to_eject, exit_end, end_churn, churn_limit) ==
    [k \in DOMAIN validators |->
        IF (k - 1) \in Range(to_eject)
        THEN [validators[k] EXCEPT
                 !.exit_epoch = exit_end,
                 !.withdrawable_epoch = exit_end + MIN_VALIDATOR_WITHDRAWABILITY_DELAY]
        ELSE validators[k]]

\* The ejection loop of process_registry_updates.
RECURSIVE eject_all(_, _, _, _, _)
eject_all(validators, to_eject, exit_end, end_churn, churn_limit) ==
    IF to_eject = <<>> THEN validators
    ELSE LET index == Head(to_eject)
             validator == [At(validators, index) EXCEPT
                              !.exit_epoch = exit_end,
                              !.withdrawable_epoch =
                                  exit_end + MIN_VALIDATOR_WITHDRAWABILITY_DELAY]
             wrap == end_churn + 1 >= churn_limit
         IN eject_all(SetAt(validators, index, validator), Tail(to_eject),
                      IF wrap THEN exit_end + 1 ELSE exit_end,
                      IF wrap THEN 0 ELSE end_churn + 1,
                      churn_limit)

\* The activation loop: the queue is walked until the first entry whose
\* eligibility epoch is beyond finality.
RECURSIVE activate_all(_, _, _, _)
activate_all(validators, queue, process, finality_epoch) ==
    IF queue = <<>> THEN validators
    ELSE LET index == Head(queue)
         IN IF At(process.statuses, index).validator.activation_eligibility_epoch
               > finality_epoch
            THEN validators
            ELSE activate_all(
                    SetAt(validators, index,
                          [At(validators, index) EXCEPT !.activation_epoch =
                              compute_activation_exit_epoch(process.current_epoch)]),
                    Tail(queue), process, finality_epoch)

\* A faulty variant of process_registry_updates: the last churn_limit
\* entries of the queue are dequeued.
process_registry_updates_newest(ctx, process, state) ==
    LET ejected == eject_all(state.validators, process.indices_to_eject,
                             process.exit_queue_end, process.exit_queue_end_churn,
                             process.churn_limit)
        to_set == Range(process.indices_to_set_activation_eligibility)
        eligible == [i \in DOMAIN ejected |->
                        IF (i - 1) \in to_set
                        THEN [ejected[i] EXCEPT !.activation_eligibility_epoch =
                                 ctx.current_shuffling.epoch + 1]
                        ELSE ejected[i]]
        finality_epoch == state.finalized_checkpoint.epoch
        queue == Slice(process.indices_to_maybe_activate,
                       Max(0, Len(process.indices_to_maybe_activate) - process.churn_limit),
                       Len(process.indices_to_maybe_activate))
    IN [state EXCEPT !.validators = activate_all(eligible, queue, process, finality_epoch)]

process_registry_updates(ctx, process, state) ==
    LET ejected == eject_all(state.validators, process.indices_to_eject,
                             process.exit_queue_end, process.exit_queue_end_churn,
                             process.churn_limit)
        to_set == Range(process.indices_to_set_activation_eligibility)
        eligible == [i \in DOMAIN ejected |->
                        IF (i - 1) \in to_set
                        THEN [ejected[i] EXCEPT !.activation_eligibility_epoch =
                                 ctx.current_shuffling.epoch + 1]
                        ELSE ejected[i]]
        finality_epoch == state.finalized_checkpoint.epoch
        queue == Slice(process.indices_to_maybe_activate, 0,
                       Min(process.churn_limit, Len(process.indices_to_maybe_activate)))
    IN [state EXCEPT !.validators = activate_all(eligible, queue, process, finality_epoch)]

RECURSIVE slash_all(_, _, _, _, _)
slash_all(state, to_slash, process, slashings_scale, total_balance) ==
    IF to_slash = <<>> THEN state
    ELSE LET index == Head(to_slash)
             increment == EFFECTIVE_BALANCE_INCREMENT
             effective_balance == At(process.statuses, index).validator.effective_balance
             penalty_numerator == (effective_balance \div increment) * slashings_scale
             penalty == (penalty_numerator \div total_balance) * increment
         IN slash_all(decrease_balance(state, index, penalty), Tail(to_slash),
                      process, slashings_scale, total_balance)

process_slashings(process, state) ==
    LET total_balance == process.total_active_stake
        slashings_scale == Min(SumSeq(state.slashings) * 3, total_balance)
    IN slash_all(state, process.indices_to_slash, process, slashings_scale, total_balance)

process_final_updates(process, state) ==
    LET HYSTERESIS_INCREMENT == EFFECTIVE_BALANCE_INCREMENT \div HYSTERESIS_QUOTIENT
        DOWNWARD_THRESHOLD == HYSTERESIS_INCREMENT * HYSTERESIS_DOWNWARD_MULTIPLIER
        UPWARD_THRESHOLD == HYSTERESIS_INCREMENT * HYSTERESIS_UPWARD_MULTIPLIER
        current_epoch == process.current_epoch
        next_epoch == current_epoch + 1
        \* zip(enumerate(process.statuses), state.balances)
        m == Min(Len(process.statuses), Len(state.balances))
        updated(i) ==
            LET effective_balance == process.statuses[i].validator.effective_balance
                balance == state.balances[i]
            IN IF balance + DOWNWARD_THRESHOLD < effective_balance
                  \/ effective_balance + UPWARD_THRESHOLD < balance
               THEN [state.validators[i] EXCEPT !.effective_balance =
                        Min(balance - (balance % EFFECTIVE_BALANCE_INCREMENT),
                            MAX_EFFECTIVE_BALANCE)]
               ELSE state.validators[i]
        s1 == [state EXCEPT
                 !.eth1_data_votes =
                     IF next_epoch % EPOCHS_PER_ETH1_VOTING_PERIOD = 0 THEN <<>> ELSE @,
                 !.validators = [i \in DOMAIN @ |-> IF i <= m THEN updated(i) ELSE @[i]]]
        s2 == [s1 EXCEPT !.slashings = SetAt(@, next_epoch % EPOCHS_PER_SLASHINGS_VECTOR, 0)]
        s3 == [s2 EXCEPT !.randao_mixes =
                  SetAt(@, next_epoch % EPOCHS_PER_HISTORICAL_VECTOR,
                        get_randao_mix(s2, current_epoch))]
        s4 == IF next_epoch % (SLOTS_PER_HISTORICAL_ROOT \div SLOTS_PER_EPOCH) = 0
              THEN [s3 EXCEPT !.historical_roots = Append(@, next_epoch)]
              ELSE s3
    IN [s4 EXCEPT !.previous_epoch_attestations = s4.current_epoch_attestations,
                  !.current_epoch_attestations = <<>>]

\* process_epoch from the rewards step on
epoch_after_rewards(ctx, state, process, rewarded) ==
    IF ~rewarded.ok THEN [ok |-> FALSE, state |-> state]
    ELSE [ok |-> TRUE,
          state |-> process_final_updates(process,
                        process_slashings(process,
                            process_registry_updates(ctx, process, rewarded.state)))]

\* process_epoch from the justification step on
epoch_after_justification(ctx, state, process, justified) ==
    IF ~justified.ok THEN [ok |-> FALSE, state |-> state]
    ELSE epoch_after_rewards(ctx, state, process,
                             process_rewards_and_penalties(process, justified.state))

epoch_with_process(ctx, state, prepared) ==
    IF ~prepared.ok THEN [ok |-> FALSE, state |-> state]
    ELSE epoch_after_justification(ctx, state, prepared.process,
             process_justification_and_finalization(prepared.process, state))

process_epoch(ctx, state) ==
    epoch_with_process(ctx, state, prepare_epoch_process_state(ctx, state))

(***************************************************************************)
(* Block transition.  Every processor returns [ok, state, ctx]: ok is      *)
(* FALSE where the code raises, state is then the value the processor      *)
(* held when it raised, and ctx is the EpochsContext as the processor left *)
(* it (the context is mutated in place, the state never is).               *)
(***************************************************************************)
Ok(state, ctx) == [ok |-> TRUE, state |-> state, ctx |-> ctx]

Raise(state, ctx) == [ok |-> FALSE, state |-> state, ctx |-> ctx]

\* hash_tree_root of a block header of this lineage, named by its slot
header_root(header) == header.slot + 1

\* the bitwise exclusive-or of two naturals
RECURSIVE xor(_, _)
xor(a, b) ==
    IF a = 0 THEN b ELSE IF b = 0 THEN a
    ELSE ((a + b) % 2) + 2 * xor(a \div 2, b \div 2)

\* A faulty variant of process_block_header: the block need not be newer
\* than the latest header.
process_block_header_of_any_age(ctx, state, block) ==
    LET proposer == get_beacon_proposer(ctx, state.slot)
        new_state == [state EXCEPT !.latest_block_header =
                         [slot |-> block.slot,
                          proposer_index |-> block.proposer_index,
                          parent_root |-> block.parent_root,
                          state_root |-> 0]]
    IN IF state.slot # block.slot THEN Raise(state, ctx)
       ELSE IF ~proposer.ok THEN Raise(state, ctx)
       ELSE IF block.proposer_index # proposer.index THEN Raise(state, ctx)
       ELSE IF block.parent_root # header_root(state.latest_block_header)
       THEN Raise(state, ctx)
       ELSE IF proposer.index >= Len(new_state.validators) THEN Raise(new_state, ctx)
       ELSE IF At(new_state.validators, proposer.index).slashed THEN Raise(new_state, ctx)
       ELSE Ok(new_state, ctx)

process_block_header(ctx, state, block) ==
    LET proposer == get_beacon_proposer(ctx, state.slot)
        proposer_index == proposer.index
        new_state == [state EXCEPT !.latest_block_header =
                         [slot |-> block.slot,
                          proposer_index |-> block.proposer_index,
                          parent_root |-> block.parent_root,
                          state_root |-> 0]]
    IN IF state.slot # block.slot THEN Raise(state, ctx)
       ELSE IF ~(block.slot > state.latest_block_header.slot) THEN Raise(state, ctx)
       ELSE IF ~proposer.ok THEN Raise(state, ctx)
       ELSE IF block.proposer_index # proposer_index THEN Raise(state, ctx)
       ELSE IF block.parent_root # header_root(state.latest_block_header)
       THEN Raise(state, ctx)
       ELSE IF proposer_index >= Len(new_state.validators) THEN Raise(new_state, ctx)
       ELSE IF At(new_state.validators, proposer_index).slashed THEN Raise(new_state, ctx)
       ELSE Ok(new_state, ctx)

\* hash_eth2(randao_reveal) of the valid reveal of a proposer for an epoch
\* (a BLS signature is a function of the signer and the message)
reveal_digest(proposer_index, epoch) == hash_eth2(<<2, proposer_index, epoch>>) % 4

process_randao(ctx, state, body) ==
    LET epoch == ctx.current_shuffling.epoch
        proposer == get_beacon_proposer(ctx, state.slot)
        mix == xor(get_randao_mix(state, epoch), reveal_digest(proposer.index, epoch))
    IN IF ~proposer.ok THEN Raise(state, ctx)
       ELSE IF ~body.randao_reveal_ok THEN Raise(state, ctx)
       ELSE Ok([state EXCEPT !.randao_mixes =
                    SetAt(@, epoch % EPOCHS_PER_HISTORICAL_VECTOR, mix)], ctx)

process_eth1_data(ctx, state, body) ==
    LET new_eth1_data == body.eth1_data
        voted == [state EXCEPT !.eth1_data_votes = Append(@, new_eth1_data)]
        votes == Cardinality({i \in DOMAIN voted.eth1_data_votes :
                                 voted.eth1_data_votes[i] = new_eth1_data})
    IN IF voted.eth1_data = new_eth1_data THEN Ok(voted, ctx)
       ELSE IF votes * 2 > EPOCHS_PER_ETH1_VOTING_PERIOD * SLOTS_PER_EPOCH
       THEN Ok([voted EXCEPT !.eth1_data = new_eth1_data], ctx)
       ELSE Ok(voted, ctx)

\* A faulty variant of with_exit: the withdrawable epoch is the delay alone.
with_exit_delay_only(validator, exit_queue_epoch) ==
    [validator EXCEPT !.exit_epoch = exit_queue_epoch,
                      !.withdrawable_epoch = MIN_VALIDATOR_WITHDRAWABILITY_DELAY]

\* Set validator exit epoch and withdrawable epoch
with_exit(validator, exit_queue_epoch) ==
    [validator EXCEPT !.exit_epoch = exit_queue_epoch,
                      !.withdrawable_epoch =
                          exit_queue_epoch + MIN_VALIDATOR_WITHDRAWABILITY_DELAY]

\* A faulty variant of initiate_validator_exit: a validator that has an exit
\* epoch is given a new one.
initiate_validator_exit_again(ctx, state, index) ==
    LET validator == At(state.validators, index)
        exit_queue_epoch ==
            exit_queue_end_of(state.validators,
                              compute_activation_exit_epoch(ctx.current_shuffling.epoch))
        exit_queue_churn ==
            Cardinality({i \in DOMAIN state.validators :
                            state.validators[i].exit_epoch = exit_queue_epoch})
        exit_epoch ==
            IF exit_queue_churn >= get_churn_limit(Len(ctx.current_shuffling.active_indices))
            THEN exit_queue_epoch + 1 ELSE exit_queue_epoch
    IN [state EXCEPT !.validators = SetAt(@, index, with_exit(validator, exit_epoch))]

initiate_validator_exit(ctx, state, index) ==
    LET validator == At(state.validators, index)
        current_epoch == ctx.current_shuffling.epoch
        exit_queue_epoch ==
            exit_queue_end_of(state.validators, compute_activation_exit_epoch(current_epoch))
        exit_queue_churn ==
            Cardinality({i \in DOMAIN state.validators :
                            state.validators[i].exit_epoch = exit_queue_epoch})
        exit_epoch ==
            IF exit_queue_churn >= get_churn_limit(Len(ctx.current_shuffling.active_indices))
            THEN exit_queue_epoch + 1 ELSE exit_queue_epoch
    IN IF validator.exit_epoch # FAR_FUTURE_EPOCH THEN state
       ELSE [state EXCEPT !.validators = SetAt(@, index, with_exit(validator, exit_epoch))]

\* A faulty variant of reward_whistleblower: the proposer gets its share
\* only.
reward_proposer_share(ctx, state, effective_balance, proposer) ==
    IF ~proposer.ok \/ proposer.index >= Len(state.balances) THEN Raise(state, ctx)
    ELSE Ok(increase_balance(state, proposer.index,
                (effective_balance \div WHISTLEBLOWER_REWARD_QUOTIENT)
                    \div PROPOSER_REWARD_QUOTIENT), ctx)

\* The rewards of slash_validator; whistleblower_index is None at every call
\* of the core and becomes the proposer.
reward_whistleblower(ctx, state, effective_balance, proposer) ==
    LET proposer_index == proposer.index
        whistleblower_index == proposer_index
        whistleblower_reward == effective_balance \div WHISTLEBLOWER_REWARD_QUOTIENT
        proposer_reward == whistleblower_reward \div PROPOSER_REWARD_QUOTIENT
    IN IF ~proposer.ok \/ proposer_index >= Len(state.balances) THEN Raise(state, ctx)
       ELSE Ok(increase_balance(increase_balance(state, proposer_index, proposer_reward),
                                whistleblower_index,
                                whistleblower_reward - proposer_reward), ctx)

\* A faulty variant of slash_exited: withdrawable half a slashings vector
\* after the slashing.
slash_exited_for_half(ctx, state, slashed_index) ==
    LET epoch == ctx.current_shuffling.epoch
        old == At(state.validators, slashed_index)
        new_validator ==
            [old EXCEPT !.slashed = TRUE,
                        !.withdrawable_epoch =
                            epoch + (EPOCHS_PER_SLASHINGS_VECTOR \div 2)]
    IN reward_whistleblower(ctx,
           decrease_balance(
               [state EXCEPT
                   !.slashings = SetAt(@, epoch % EPOCHS_PER_SLASHINGS_VECTOR,
                                       At(@, epoch % EPOCHS_PER_SLASHINGS_VECTOR)
                                       + new_validator.effective_balance),
                   !.validators = SetAt(@, slashed_index, new_validator)],
               slashed_index,
               new_validator.effective_balance \div MIN_SLASHING_PENALTY_QUOTIENT),
           new_validator.effective_balance,
           get_beacon_proposer(ctx, state.slot))

\* slash_validator after initiate_validator_exit
slash_exited(ctx, state, slashed_index) ==
    LET epoch == ctx.current_shuffling.epoch
        old == At(state.validators, slashed_index)
        new_validator ==
            [old EXCEPT !.slashed = TRUE,
                        !.withdrawable_epoch =
                            Max(old.withdrawable_epoch, epoch + EPOCHS_PER_SLASHINGS_VECTOR)]
    IN reward_whistleblower(ctx,
           decrease_balance(
               [state EXCEPT
                   !.slashings = SetAt(@, epoch % EPOCHS_PER_SLASHINGS_VECTOR,
                                       At(@, epoch % EPOCHS_PER_SLASHINGS_VECTOR)
                                       + new_validator.effective_balance),
                   !.validators = SetAt(@, slashed_index, new_validator)],
               slashed_index,
               new_validator.effective_balance \div MIN_SLASHING_PENALTY_QUOTIENT),
           new_validator.effective_balance,
           get_beacon_proposer(ctx, state.slot))

slash_validator(ctx, state, slashed_index) ==
    slash_exited(ctx, initiate_validator_exit(ctx, state, slashed_index), slashed_index)

process_proposer_slashing(ctx, state, proposer_slashing) ==
    LET proposer_index == proposer_slashing.proposer_index
    IN IF proposer_index >= Len(state.validators) THEN Raise(state, ctx)
       ELSE IF ~proposer_slashing.slots_match THEN Raise(state, ctx)
       ELSE IF ~proposer_slashing.headers_differ THEN Raise(state, ctx)
       ELSE IF ~is_slashable(At(state.validators, proposer_index),
                             ctx.current_shuffling.epoch)
       THEN Raise(state, ctx)
       ELSE IF ~proposer_slashing.signatures_ok THEN Raise(state, ctx)
       ELSE slash_validator(ctx, state, proposer_index)

\* is_valid_indexed_attestation: raised where index2pubkey[i] is out of range
is_valid_indexed_attestation(ctx, state, indexed_attestation) ==
    LET indices == indexed_attestation.attesting_indices
        sorted_unique == indices = SortedSeq(Range(indices))
    IN IF Len(indices) = 0 \/ ~sorted_unique THEN [raised |-> FALSE, valid |-> FALSE]
       ELSE IF \E k \in DOMAIN indices : indices[k] >= Len(ctx.index2pubkey)
       THEN [raised |-> TRUE, valid |-> FALSE]
       ELSE [raised |-> FALSE, valid |-> indexed_attestation.signature_ok]

\* validate_is_slashable_attestation_data: a double vote or a surround vote
is_slashable_attestation_data(data_1, data_2) ==
    \/ (data_1 # data_2 /\ data_1.target.epoch = data_2.target.epoch)
    \/ (data_1.source.epoch < data_2.source.epoch
        /\ data_2.target.epoch < data_1.target.epoch)

\* One index of the slashing loop of process_attester_slashing; validators
\* is the registry read before the loop, done the result so far.
slashed_one(slashed) ==
    [ok |-> slashed.ok, state |-> slashed.state, ctx |-> slashed.ctx, any |-> TRUE]

\* A faulty variant of slash_index: is_slashable is not asked.
slash_index_unasked(done, validators, index) ==
    IF index >= Len(validators) THEN [done EXCEPT !.ok = FALSE]
    ELSE slashed_one(slash_validator(done.ctx, done.state, index))

slash_index(done, validators, index) ==
    IF index >= Len(validators) THEN [done EXCEPT !.ok = FALSE]
    ELSE IF is_slashable(At(validators, index), done.ctx.current_shuffling.epoch)
    THEN slashed_one(slash_validator(done.ctx, done.state, index))
    ELSE done

\* the loop over the sorted intersection
RECURSIVE slash_indices(_, _, _)
slash_indices(done, validators, indices) ==
    IF indices = <<>> \/ ~done.ok THEN done
    ELSE slash_indices(slash_index(done, validators, Head(indices)), validators,
                       Tail(indices))

\* "No validators slashed." after the loop
slashed_any(done) ==
    IF ~done.ok THEN Raise(done.state, done.ctx)
    ELSE IF ~done.any THEN Raise(done.state, done.ctx)
    ELSE Ok(done.state, done.ctx)

process_attester_slashing(ctx, state, attester_slashing) ==
    LET attestation_1 == attester_slashing.attestation_1
        attestation_2 == attester_slashing.attestation_2
        valid_1 == is_valid_indexed_attestation(ctx, state, attestation_1)
        valid_2 == is_valid_indexed_attestation(ctx, state, attestation_2)
        indices == Range(attestation_1.attesting_indices)
                   \cap Range(attestation_2.attesting_indices)
    IN IF ~is_slashable_attestation_data(attestation_1.data, attestation_2.data)
       THEN Raise(state, ctx)
       ELSE IF valid_1.raised \/ ~valid_1.valid THEN Raise(state, ctx)
       ELSE IF valid_2.raised \/ ~valid_2.valid THEN Raise(state, ctx)
       ELSE slashed_any(
                slash_indices([ok |-> TRUE, state |-> state, ctx |-> ctx, any |-> FALSE],
                              state.validators, SortedSeq(indices)))

\* A faulty variant of append_pending: always the list of the current epoch.
append_pending_to_current(state, is_current, pending_attestation) ==
    [state EXCEPT !.current_epoch_attestations = Append(@, pending_attestation)]

\* A faulty variant of append_pending: always the list of the previous epoch.
append_pending_to_previous(state, is_current, pending_attestation) ==
    [state EXCEPT !.previous_epoch_attestations = Append(@, pending_attestation)]

\* the list the pending attestation joins
append_pending(state, is_current, pending_attestation) ==
    IF is_current
    THEN [state EXCEPT !.current_epoch_attestations = Append(@, pending_attestation)]
    ELSE [state EXCEPT !.previous_epoch_attestations = Append(@, pending_attestation)]

process_attestation(ctx, state, attestation) ==
    LET slot == state.slot
        data == attestation.data
        count == get_committee_count_at_slot(ctx, data.slot)
        looked == get_beacon_committee(ctx, data.slot, data.index)
        committee == looked.committee
        proposer == get_beacon_proposer(ctx, slot)
        pending_attestation ==
            [aggregation_bits |-> attestation.aggregation_bits,
             data |-> data,
             inclusion_delay |-> slot - data.slot,
             proposer_index |-> proposer.index]
        is_current == data.target.epoch = ctx.current_shuffling.epoch
        appended == append_pending(state, is_current, pending_attestation)
        attesting_indices ==
            {committee[i] : i \in {k \in DOMAIN committee : attestation.aggregation_bits[k]}}
        indexed_attestation ==
            [attesting_indices |-> SortedSeq(attesting_indices),
             data |-> data,
             signature_ok |-> attestation.signature_ok]
        valid == is_valid_indexed_attestation(ctx, appended, indexed_attestation)
    IN IF ~count.ok THEN Raise(state, ctx)
       ELSE IF data.index >= count.count THEN Raise(state, ctx)
       ELSE IF data.target.epoch \notin
                   {ctx.previous_shuffling.epoch, ctx.current_shuffling.epoch}
       THEN Raise(state, ctx)
       ELSE IF data.target.epoch # compute_epoch_at_slot(data.slot) THEN Raise(state, ctx)
       ELSE IF ~(data.slot + MIN_ATTESTATION_INCLUSION_DELAY <= slot
                 /\ slot <= data.slot + SLOTS_PER_EPOCH)
       THEN Raise(state, ctx)
       ELSE IF ~looked.ok THEN Raise(state, ctx)
       ELSE IF Len(attestation.aggregation_bits) # Len(committee) THEN Raise(state, ctx)
       ELSE IF ~proposer.ok THEN Raise(state, ctx)
       ELSE IF is_current /\ data.source # state.current_justified_checkpoint
       THEN Raise(state, ctx)
       ELSE IF ~is_current /\ data.source # state.previous_justified_checkpoint
       THEN Raise(state, ctx)
       ELSE IF valid.raised \/ ~valid.valid THEN Raise(appended, ctx)
       ELSE Ok(appended, ctx)

\* Validator.create(...) of process_deposit
new_validator(pubkey, amount) ==
    [pubkey |-> pubkey,
     effective_balance |->
         Min(amount - (amount % EFFECTIVE_BALANCE_INCREMENT), MAX_EFFECTIVE_BALANCE),
     slashed |-> FALSE,
     activation_eligibility_epoch |-> FAR_FUTURE_EPOCH,
     activation_epoch |-> FAR_FUTURE_EPOCH,
     exit_epoch |-> FAR_FUTURE_EPOCH,
     withdrawable_epoch |-> FAR_FUTURE_EPOCH]

\* A faulty variant of add_validator: the validator entry without its balance.
add_validator_without_balance(state, pubkey, amount) ==
    [state EXCEPT !.validators = Append(@, new_validator(pubkey, amount))]

\* state.mset("validators", ...append(...), "balances", ...append(amount))
add_validator(state, pubkey, amount) ==
    [state EXCEPT !.validators = Append(@, new_validator(pubkey, amount)),
                  !.balances = Append(@, amount)]

process_deposit(ctx, state, deposit) ==
    LET counted == [state EXCEPT !.eth1_deposit_index = @ + 1]
        pubkey == deposit.pubkey
        amount == deposit.amount
        known == pubkey \in DOMAIN ctx.pubkey2index
        added == add_validator(counted, pubkey, amount)
        index == IF known THEN ctx.pubkey2index[pubkey] ELSE -1
        new_state == IF known THEN increase_balance(counted, index, amount) ELSE added
        synced == sync_pubkeys(ctx, new_state)
    IN IF ~deposit.proof_ok THEN Raise(state, ctx)
       ELSE IF ~known /\ ~deposit.signature_ok THEN Ok(counted, ctx)
       ELSE IF known /\ index >= Len(counted.balances) THEN Raise(counted, ctx)
       ELSE IF ~synced.ok THEN Raise(new_state, ctx)
       ELSE Ok(new_state, synced.ctx)

process_voluntary_exit(ctx, state, signed_voluntary_exit) ==
    LET validator_index == signed_voluntary_exit.validator_index
        validator == At(state.validators, validator_index)
        current_epoch == ctx.current_shuffling.epoch
    IN IF validator_index >= Len(state.validators) THEN Raise(state, ctx)
       ELSE IF ~is_active(validator, current_epoch) THEN Raise(state, ctx)
       ELSE IF validator.exit_epoch # FAR_FUTURE_EPOCH THEN Raise(state, ctx)
       ELSE IF ~(current_epoch >= signed_voluntary_exit.epoch) THEN Raise(state, ctx)
       ELSE IF ~(current_epoch >= validator.activation_epoch + SHARD_COMMITTEE_PERIOD)
       THEN Raise(state, ctx)
       ELSE IF ~signed_voluntary_exit.signature_ok THEN Raise(state, ctx)
       ELSE Ok(initiate_validator_exit(ctx, state, validator_index), ctx)

\* the operations of a body in the order process_operations applies them
\* A faulty variant of operations_of: the voluntary exits come first.
operations_of_exits_first(body) ==
    [k \in 1..Len(body.voluntary_exits) |->
        [kind |-> "voluntary_exit", op |-> body.voluntary_exits[k]]]
    \o [k \in 1..Len(body.proposer_slashings) |->
        [kind |-> "proposer_slashing", op |-> body.proposer_slashings[k]]]
    \o [k \in 1..Len(body.attester_slashings) |->
        [kind |-> "attester_slashing", op |-> body.attester_slashings[k]]]
    \o [k \in 1..Len(body.attestations) |->
        [kind |-> "attestation", op |-> body.attestations[k]]]
    \o [k \in 1..Len(body.deposits) |-> [kind |-> "deposit", op |-> body.deposits[k]]]

operations_of(body) ==
    [k \in 1..Len(body.proposer_slashings) |->
        [kind |-> "proposer_slashing", op |-> body.proposer_slashings[k]]]
    \o [k \in 1..Len(body.attester_slashings) |->
        [kind |-> "attester_slashing", op |-> body.attester_slashings[k]]]
    \o [k \in 1..Len(body.attestations) |->
        [kind |-> "attestation", op |-> body.attestations[k]]]
    \o [k \in 1..Len(body.deposits) |-> [kind |-> "deposit", op |-> body.deposits[k]]]
    \o [k \in 1..Len(body.voluntary_exits) |->
        [kind |-> "voluntary_exit", op |-> body.voluntary_exits[k]]]

apply_operation(ctx, state, operation) ==
    CASE operation.kind = "proposer_slashing" ->
            process_proposer_slashing(ctx, state, operation.op)
      [] operation.kind = "attester_slashing" ->
            process_attester_slashing(ctx, state, operation.op)
      [] operation.kind = "attestation" -> process_attestation(ctx, state, operation.op)
      [] operation.kind = "deposit" -> process_deposit(ctx, state, operation.op)
      [] operation.kind = "voluntary_exit" ->
            process_voluntary_exit(ctx, state, operation.op)

\* applied counts the operations that returned normally
applied_one(applied, one) ==
    [ok |-> one.ok, state |-> one.state, ctx |-> one.ctx,
     applied |-> IF one.ok THEN applied + 1 ELSE applied]

\* the loop of process_operations; done is the result so far
RECURSIVE apply_operations(_, _)
apply_operations(done, operations) ==
    IF operations = <<>> \/ ~done.ok THEN done
    ELSE apply_operations(
             applied_one(done.applied,
                         apply_operation(done.ctx, done.state, Head(operations))),
             Tail(operations))

\* A faulty variant of process_operations: the number of deposits is not
\* verified.
process_operations_unverified(ctx, state, body) ==
    apply_operations([ok |-> TRUE, state |-> state, ctx |-> ctx, applied |-> 0],
                     operations_of(body))

\* A faulty variant of process_operations: only a number of deposits above
\* the number called for is refused.
process_operations_at_most(ctx, state, body) ==
    IF Len(body.deposits)
       > Min(MAX_DEPOSITS, state.eth1_data.deposit_count - state.eth1_deposit_index)
    THEN [ok |-> FALSE, state |-> state, ctx |-> ctx, applied |-> 0]
    ELSE apply_operations([ok |-> TRUE, state |-> state, ctx |-> ctx, applied |-> 0],
                          operations_of(body))

process_operations(ctx, state, body) ==
    IF Len(body.deposits)
       # Min(MAX_DEPOSITS, state.eth1_data.deposit_count - state.eth1_deposit_index)
    THEN [ok |-> FALSE, state |-> state, ctx |-> ctx, applied |-> 0]
    ELSE apply_operations([ok |-> TRUE, state |-> state, ctx |-> ctx, applied |-> 0],
                          operations_of(body))

\* The result of process_block: step names the step that raised ("" when
\* none did).
Returned(operations) ==
    [ok |-> operations.ok, state |-> operations.state, ctx |-> operations.ctx,
     step |-> IF operations.ok THEN "" ELSE "operations", applied |-> operations.applied]

Aborted(step, result) ==
    [ok |-> FALSE, state |-> result.state, ctx |-> result.ctx, step |-> step,
     applied |-> 0]

block_after_eth1(block, eth1) ==
    Returned(process_operations(eth1.ctx, eth1.state, block.body))

block_after_randao(block, randao) ==
    IF ~randao.ok THEN Aborted("randao", randao)
    ELSE block_after_eth1(block, process_eth1_data(randao.ctx, randao.state, block.body))

block_after_header(block, header) ==
    IF ~header.ok THEN Aborted("header", header)
    ELSE block_after_randao(block, process_randao(header.ctx, header.state, block.body))

process_block(ctx, state, block) ==
    block_after_header(block, process_block_header(ctx, state, block))

(***************************************************************************)
(* Slot driver.                                                            *)
(***************************************************************************)
\* hash_tree_root of a state of this lineage, named by its slot (never the
\* zero hash)
state_root(state) == state.slot + 1

\* _process_slot of eth2.beacon.state_machines.forks.serenity.slot_processing
process_slot(state) ==
    LET previous_state_root == state_root(state)
        s1 == [state EXCEPT !.state_roots =
                  SetAt(@, state.slot % SLOTS_PER_HISTORICAL_ROOT, previous_state_root)]
        s2 == IF s1.latest_block_header.state_root = 0
              THEN [s1 EXCEPT !.latest_block_header.state_root = previous_state_root]
              ELSE s1
    IN [s2 EXCEPT !.block_roots =
           SetAt(@, s2.slot % SLOTS_PER_HISTORICAL_ROOT,
                 header_root(s2.latest_block_header))]

\* The while loop of process_slots.  events lists, in order, what was done:
\* "slot" a per-slot update, "epoch" an epoch transition, "rotate" a
\* rotate_epochs that returned.
RECURSIVE slots_loop(_, _, _, _)
\* after rotate_epochs(state.set("slot", next_slot))
rotate_step(state, slot, events, rotated) ==
    IF ~rotated.ok
    THEN [ok |-> FALSE, state |-> state, ctx |-> rotated.ctx,
          events |-> events \o <<"slot", "epoch">>]
    ELSE slots_loop(rotated.ctx, state, slot, events \o <<"slot", "epoch", "rotate">>)

\* after process_epoch at the last slot of an epoch
epoch_step(ctx, s1, slot, events, epoch) ==
    IF ~epoch.ok
    THEN [ok |-> FALSE, state |-> s1, ctx |-> ctx, events |-> events \o <<"slot">>]
    ELSE rotate_step([epoch.state EXCEPT !.slot = s1.slot + 1], slot, events,
                     rotate_epochs(ctx, [epoch.state EXCEPT !.slot = s1.slot + 1]))

\* A faulty variant of slot_step: the epoch transition is run on the first
\* slot of an epoch instead of the last.
slot_step_at_epoch_start(ctx, s1, slot, events) ==
    IF s1.slot % SLOTS_PER_EPOCH = 0
    THEN epoch_step(ctx, s1, slot, events, process_epoch(ctx, s1))
    ELSE slots_loop(ctx, [s1 EXCEPT !.slot = s1.slot + 1], slot, events \o <<"slot">>)

\* the loop body after _process_slot
slot_step(ctx, s1, slot, events) ==
    IF (s1.slot + 1) % SLOTS_PER_EPOCH = 0
    THEN epoch_step(ctx, s1, slot, events, process_epoch(ctx, s1))
    ELSE slots_loop(ctx, [s1 EXCEPT !.slot = s1.slot + 1], slot, events \o <<"slot">>)

slots_loop(ctx, state, slot, events) ==
    IF ~(state.slot < slot)
    THEN [ok |-> TRUE, state |-> state, ctx |-> ctx, events |-> events]
    ELSE slot_step(ctx, process_slot(state), slot, events)

\* A faulty variant of process_slots: the entry test lets the slot of the
\* state through.
process_slots_from_behind(ctx, state, slot) ==
    IF state.slot > slot
    THEN [ok |-> FALSE, state |-> state, ctx |-> ctx, events |-> <<>>]
    ELSE slots_loop(ctx, state, slot, <<>>)

process_slots(ctx, state, slot) ==
    IF state.slot >= slot
    THEN [ok |-> FALSE, state |-> state, ctx |-> ctx, events |-> <<>>]
    ELSE slots_loop(ctx, state, slot, <<>>)

(***************************************************************************)
(* The genesis state of the lineage.                                       *)
(***************************************************************************)
GenesisPubkeys == <<11, 12, 13>>

GenesisValidator(pubkey) ==
    [pubkey |-> pubkey,
     effective_balance |-> MAX_EFFECTIVE_BALANCE,
     slashed |-> FALSE,
     activation_eligibility_epoch |-> GENESIS_EPOCH,
     activation_epoch |-> GENESIS_EPOCH,
     exit_epoch |-> FAR_FUTURE_EPOCH,
     withdrawable_epoch |-> FAR_FUTURE_EPOCH]

GenesisState ==
    [slot |-> 0,
     latest_block_header |->
         [slot |-> 0, proposer_index |-> 0, parent_root |-> 0, state_root |-> 0],
     block_roots |-> [k \in 1..SLOTS_PER_HISTORICAL_ROOT |-> 0],
     state_roots |-> [k \in 1..SLOTS_PER_HISTORICAL_ROOT |-> 0],
     historical_roots |-> <<>>,
     eth1_data |-> [deposit_count |-> Len(GenesisPubkeys)],
     eth1_data_votes |-> <<>>,
     eth1_deposit_index |-> Len(GenesisPubkeys),
     validators |-> [k \in DOMAIN GenesisPubkeys |-> GenesisValidator(GenesisPubkeys[k])],
     balances |-> [k \in DOMAIN GenesisPubkeys |-> MAX_EFFECTIVE_BALANCE],
     randao_mixes |-> [k \in 1..EPOCHS_PER_HISTORICAL_VECTOR |-> 0],
     slashings |-> [k \in 1..EPOCHS_PER_SLASHINGS_VECTOR |-> 0],
     previous_epoch_attestations |-> <<>>,
     current_epoch_attestations |-> <<>>,
     justification_bits |-> <<FALSE, FALSE, FALSE, FALSE>>,
     previous_justified_checkpoint |-> Checkpoint(GENESIS_EPOCH, 0),
     current_justified_checkpoint |-> Checkpoint(GENESIS_EPOCH, 0),
     finalized_checkpoint |-> Checkpoint(GENESIS_EPOCH, 0)]

(***************************************************************************)
(* Inputs: the blocks offered to process_block in a state.                 *)
(***************************************************************************)
Deposit(pubkey, amount, proof_ok, signature_ok) ==
    [pubkey |-> pubkey, amount |-> amount, proof_ok |-> proof_ok,
     signature_ok |-> signature_ok]

VoluntaryExit(epoch, validator_index, signature_ok) ==
    [epoch |-> epoch, validator_index |-> validator_index, signature_ok |-> signature_ok]

ProposerSlashing(proposer_index, slots_match, headers_differ, signatures_ok) ==
    [proposer_index |-> proposer_index, slots_match |-> slots_match,
     headers_differ |-> headers_differ, signatures_ok |-> signatures_ok]

AttestationData(slot, index, beacon_block_root, source, target) ==
    [slot |-> slot, index |-> index, beacon_block_root |-> beacon_block_root,
     source |-> source, target |-> target]

IndexedAttestation(attesting_indices, data, signature_ok) ==
    [attesting_indices |-> attesting_indices, data |-> data, signature_ok |-> signature_ok]

AttesterSlashing(attestation_1, attestation_2) ==
    [attestation_1 |-> attestation_1, attestation_2 |-> attestation_2]

Attestation(aggregation_bits, data, signature_ok) ==
    [aggregation_bits |-> aggregation_bits, data |-> data, signature_ok |-> signature_ok]

\* a body with a valid reveal, the given eth1 vote and no operation
EmptyBody(eth1_data) ==
    [randao_reveal_ok |-> TRUE,
     eth1_data |-> eth1_data,
     proposer_slashings |-> <<>>,
     attester_slashings |-> <<>>,
     attestations |-> <<>>,
     deposits |-> <<>>,
     voluntary_exits |-> <<>>]

\* the proposer a well-formed block names
expected_proposer(ctx, state) ==
    LET proposer == get_beacon_proposer(ctx, state.slot)
    IN IF proposer.ok THEN proposer.index ELSE 0

\* the block for the state's slot on top of its latest header
BlockAt(ctx, state, body) ==
    [slot |-> state.slot,
     proposer_index |-> expected_proposer(ctx, state),
     parent_root |-> header_root(state.latest_block_header),
     body |-> body]

\* the number of deposits process_operations asks for once the vote is in
required_deposits(ctx, state, vote) ==
    LET voted == process_eth1_data(ctx, state, [eth1_data |-> vote]).state
    IN Max(0, Min(MAX_DEPOSITS, voted.eth1_data.deposit_count - voted.eth1_deposit_index))

\* eth1 votes: the data of the state, two more deposits than were
\* processed, one deposit fewer than were processed
Eth1Votes(state) ==
    {state.eth1_data,
     [deposit_count |-> state.eth1_deposit_index + 2],
     [deposit_count |-> state.eth1_deposit_index - 1]}

\* deposits: two keys (the second deposit of a key is a top-up), a new key
\* with a bad proof of possession, a deposit with a bad Merkle proof
DepositChoices ==
    {Deposit(14, MAX_EFFECTIVE_BALANCE, TRUE, TRUE),
     Deposit(15, MAX_EFFECTIVE_BALANCE, TRUE, TRUE),
     Deposit(15, MAX_EFFECTIVE_BALANCE, TRUE, FALSE),
     Deposit(14, MAX_EFFECTIVE_BALANCE, FALSE, TRUE)}

DepositSeqs(k) == [1..k -> DepositChoices]

\* voluntary exits: none, the first validator's, one with a bad signature,
\* the first validator's followed by one with a bad signature
ExitChoices(ctx) ==
    {<<>>,
     <<VoluntaryExit(ctx.current_shuffling.epoch, 0, TRUE)>>,
     <<VoluntaryExit(ctx.current_shuffling.epoch, 1, FALSE)>>,
     <<VoluntaryExit(ctx.current_shuffling.epoch, 0, TRUE),
       VoluntaryExit(ctx.current_shuffling.epoch, 1, FALSE)>>}

\* every vote with the deposits it calls for and a choice of exits, and one
\* body with a deposit too many
RegistryBodies(ctx, state) ==
    {[EmptyBody(choice[1]) EXCEPT !.deposits = choice[2], !.voluntary_exits = choice[3]] :
        choice \in
            UNION {{v} \X DepositSeqs(required_deposits(ctx, state, v)) \X ExitChoices(ctx) :
                   v \in Eth1Votes(state)}}
    \cup {[EmptyBody(state.eth1_data) EXCEPT !.deposits =
              [k \in 1..(required_deposits(ctx, state, state.eth1_data) + 1) |->
                  Deposit(14, MAX_EFFECTIVE_BALANCE, TRUE, TRUE)]]}

\* two attestation data of the genesis epoch that differ in the head
DoubleVote(root) ==
    AttestationData(0, 0, root, Checkpoint(GENESIS_EPOCH, 0), Checkpoint(GENESIS_EPOCH, 0))

\* two attestation data of which the first surrounds the second
SurroundVote(source_epoch, target_epoch) ==
    AttestationData(compute_start_slot_at_epoch(target_epoch), 0, 0,
                    Checkpoint(source_epoch, 0), Checkpoint(target_epoch, 0))

\* slashings: a proposer slashing of validator 1 (valid, or of equal
\* headers); attester slashings of validator 2 by a double vote, by a
\* surround vote, and one of equal data
SlashingBodies(state) ==
    LET body == EmptyBody(state.eth1_data)
    IN {[body EXCEPT !.proposer_slashings = <<ProposerSlashing(1, TRUE, TRUE, TRUE)>>],
        [body EXCEPT !.proposer_slashings = <<ProposerSlashing(1, TRUE, FALSE, TRUE)>>],
        [body EXCEPT !.attester_slashings =
            <<AttesterSlashing(IndexedAttestation(<<1, 2>>, DoubleVote(0), TRUE),
                               IndexedAttestation(<<2>>, DoubleVote(1), TRUE))>>],
        [body EXCEPT !.attester_slashings =
            <<AttesterSlashing(IndexedAttestation(<<2>>, SurroundVote(0, 3), TRUE),
                               IndexedAttestation(<<0, 2>>, SurroundVote(1, 2), TRUE))>>],
        [body EXCEPT !.attester_slashings =
            <<AttesterSlashing(IndexedAttestation(<<2>>, DoubleVote(0), TRUE),
                               IndexedAttestation(<<2>>, DoubleVote(0), TRUE))>>]}

\* blocks that break one rule of the header or the randao step
FaultyBlocks(ctx, state) ==
    LET block == BlockAt(ctx, state, EmptyBody(state.eth1_data))
    IN {[block EXCEPT !.slot = @ + 1],
        [block EXCEPT !.proposer_index = (@ + 1) % Len(state.validators)],
        [block EXCEPT !.parent_root = @ + 1],
        [block EXCEPT !.body.randao_reveal_ok = FALSE]}

RegistryBlocks(ctx, state) ==
    {BlockAt(ctx, state, body) : body \in RegistryBodies(ctx, state)}
    \cup FaultyBlocks(ctx, state)

\* voluntary exits of one validator, and of all of them in one block
ExitBodies(ctx, state) ==
    {[EmptyBody(state.eth1_data) EXCEPT !.voluntary_exits =
         <<VoluntaryExit(ctx.current_shuffling.epoch, index, TRUE)>>] :
        index \in 0..(Len(state.validators) - 1)}
    \cup {[EmptyBody(state.eth1_data) EXCEPT !.voluntary_exits =
              [k \in DOMAIN state.validators |->
                  VoluntaryExit(ctx.current_shuffling.epoch, k - 1, TRUE)]]}

ExitBlocks(ctx, state) == {BlockAt(ctx, state, body) : body \in ExitBodies(ctx, state)}

\* The validators that never attest.
Offline == {2}

\* the vote of the attesters of the slot before the state's: the head and
\* the target as the state has them, the source the checkpoint
\* process_attestation compares with
honest_data(ctx, state, slot, epoch) ==
    AttestationData(slot, 0, get_block_root_at_slot(state, slot),
        IF epoch = ctx.current_shuffling.epoch THEN state.current_justified_checkpoint
        ELSE state.previous_justified_checkpoint,
        Checkpoint(epoch, get_block_root(state, epoch)))

\* the attestation of a committee, signed by its members that are online
attestation_of(committee, data) ==
    IF \A k \in DOMAIN committee : committee[k] \in Offline THEN <<>>
    ELSE <<Attestation([k \in DOMAIN committee |-> committee[k] \notin Offline], data,
                       TRUE)>>

HonestAttestations(ctx, state) ==
    IF state.slot = 0 THEN <<>>
    ELSE attestation_of(get_beacon_committee(ctx, state.slot - 1, 0).committee,
                        honest_data(ctx, state, state.slot - 1,
                                    compute_epoch_at_slot(state.slot - 1)))

\* the eth1 data every proposer of the chain votes for: one deposit more
\* than the genesis validators
ChainEth1Data == [deposit_count |-> Len(GenesisPubkeys) + 1]

\* the body of an honest proposer: the attestation of the slot before, the
\* vote, and the deposit (of a new key) the vote calls for once adopted
HonestBody(ctx, state) ==
    [EmptyBody(ChainEth1Data) EXCEPT
        !.attestations = HonestAttestations(ctx, state),
        !.deposits = [k \in 1..required_deposits(ctx, state, ChainEth1Data) |->
                         Deposit(14, MAX_EFFECTIVE_BALANCE, TRUE, TRUE)]]

\* the bodies offered past the honest start of the chain: the honest one,
\* one without attestation, one with the exit of the first validator, and
\* the slashings
chain_bodies(state, honest) ==
    {honest,
     [honest EXCEPT !.attestations = <<>>],
     [honest EXCEPT !.voluntary_exits =
         <<VoluntaryExit(compute_epoch_at_slot(state.slot), 0, TRUE)>>]}
    \cup SlashingBodies(state)

ChainBodies(ctx, state) == chain_bodies(state, HonestBody(ctx, state))

\* The chain of ChurnSpec: every proposer votes for QueuedDeposits deposits
\* more than the genesis validators, and the deposits are of new keys, one
\* per block.
QueuedDeposits == 3

ChurnEth1Data == [deposit_count |-> Len(GenesisPubkeys) + QueuedDeposits]

ChurnBody(ctx, state) ==
    [EmptyBody(ChurnEth1Data) EXCEPT
        !.attestations = HonestAttestations(ctx, state),
        !.deposits = [k \in 1..required_deposits(ctx, state, ChurnEth1Data) |->
                         Deposit(GenesisPubkeys[1] + state.eth1_deposit_index,
                                 MAX_EFFECTIVE_BALANCE, TRUE, TRUE)]]

\* the bodies offered past the honest start: the honest one, one without
\* attestation, the honest one with the voluntary exit of one genesis
\* validator or of all of them, and the honest one with an attester slashing
\* of all of them
churn_bodies(state, honest) ==
    {honest, [honest EXCEPT !.attestations = <<>>]}
    \cup {[honest EXCEPT !.voluntary_exits =
              <<VoluntaryExit(compute_epoch_at_slot(state.slot), index, TRUE)>>] :
          index \in {0, 1}}
    \cup {[honest EXCEPT !.voluntary_exits =
              [k \in DOMAIN GenesisPubkeys |->
                  VoluntaryExit(compute_epoch_at_slot(state.slot), k - 1, TRUE)]]}
    \cup {[honest EXCEPT !.attester_slashings =
              <<AttesterSlashing(IndexedAttestation(<<0, 1, 2>>, DoubleVote(0), TRUE),
                                 IndexedAttestation(<<0, 1, 2>>, DoubleVote(1), TRUE))>>]}

ChurnBodies(ctx, state) == churn_bodies(state, ChurnBody(ctx, state))

\* bodies of a fork: the vote for one more deposit than genesis had, with
\* the deposit of a new key once the vote is in
ForkBodies(ctx, state) ==
    {[EmptyBody(ChainEth1Data) EXCEPT !.deposits =
         [k \in 1..required_deposits(ctx, state, ChainEth1Data) |->
             Deposit(pubkey, MAX_EFFECTIVE_BALANCE, TRUE, TRUE)]] : pubkey \in {14, 15}}

ForkBlocks(ctx, state) == {BlockAt(ctx, state, body) : body \in ForkBodies(ctx, state)}

(***************************************************************************)
(* The state machine: one caller holding a BeaconState and the             *)
(* EpochsContext it passes to every call.                                  *)
(***************************************************************************)
\* clone: the context a copy() made, with the state its holder has advanced
\* it to and the fields it still shares with ctx.
VARIABLES state, ctx, last, clone

vars == <<state, ctx, last, clone>>

NoClone == [made |-> FALSE, ctx |-> EpochsContext, state |-> GenesisState, shares |-> {}]

\* the clone after a call through ctx that left it as after
clone_after(after) ==
    [clone EXCEPT !.ctx = seen_through(clone.ctx, clone.shares, after),
                  !.shares = still_shared(clone.shares, ctx, after)]

MaxSlot == 5
MaxAdvance == 3

\* What the caller saw of its latest call: the operation, whether it returned
\* (ok) or raised, for process_block the step that raised and the number of
\* operations applied before it, whether the call had built a state that
\* differs from its input (touched), the slot of the input state (from), the
\* slot asked for (target) and for process_slots the list of what was done.
Call(op, ok, step, applied, touched, from, target, events) ==
    [op |-> op, ok |-> ok, step |-> step, applied |-> applied, touched |-> touched,
     from |-> from, target |-> target, events |-> events]

Init ==
    /\ state = GenesisState
    /\ ctx = load_state(EpochsContext, GenesisState).ctx
    /\ last = Call("load_state", TRUE, "", 0, FALSE, 0, 0, <<>>)
    /\ clone = NoClone

\* state = process_slots(epochs_ctx, state, slot, config)
\* the caller keeps its state where the call raised; the context it passed
\* is the object the call worked on
SlotsReturn(slot, result) ==
    /\ state' = IF result.ok THEN result.state ELSE state
    /\ ctx' = result.ctx
    /\ last' = Call("process_slots", result.ok, "", 0, result.state # state, state.slot,
                    slot, result.events)
    /\ clone' = clone_after(result.ctx)

ProcessSlots(slot) == SlotsReturn(slot, process_slots(ctx, state, slot))

\* A faulty variant of BlockReturn: the steps of process_block write to the
\* state of the caller, so what was built before the call raised stays.
BlockReturnInPlace(block, result) ==
    /\ state' = result.state
    /\ ctx' = result.ctx
    /\ last' = Call("process_block", result.ok, result.step, result.applied,
                    result.state # state, state.slot, block.slot, <<>>)
    /\ clone' = clone_after(result.ctx)

\* state = process_block(epochs_ctx, state, block, config)
BlockReturn(block, result) ==
    /\ state' = IF result.ok THEN result.state ELSE state
    /\ ctx' = result.ctx
    /\ last' = Call("process_block", result.ok, result.step, result.applied,
                    result.state # state, state.slot, block.slot, <<>>)
    /\ clone' = clone_after(result.ctx)

ProcessBlock(block) == BlockReturn(block, process_block(ctx, state, block))

AdvanceSlots ==
    \E slot \in Max(0, state.slot - 1)..Min(state.slot + MaxAdvance, MaxSlot) :
        ProcessSlots(slot)

RegistryBlock == \E block \in RegistryBlocks(ctx, state) : ProcessBlock(block)

Next == AdvanceSlots \/ RegistryBlock

Spec == Init /\ [][Next]_vars

(***************************************************************************)
(* ExitSpec: the same caller over a registry that voluntary exits empty.   *)
(* Blocks carry exits only and come up to slot LastExitSlot; process_slots *)
(* is asked for any slot up to MaxExitSlot.                                *)
(***************************************************************************)
MaxExitSlot == 12
LastExitSlot == 5

ExitSlots == \E slot \in Max(0, state.slot - 1)..MaxExitSlot : ProcessSlots(slot)

ExitBlock ==
    /\ state.slot <= LastExitSlot
    /\ \E block \in ExitBlocks(ctx, state) : ProcessBlock(block)

ExitNext == ExitSlots \/ ExitBlock

ExitSpec == Init /\ [][ExitNext]_vars

(***************************************************************************)
(* ChainSpec: the same caller following a chain.  Up to slot ChainStart    *)
(* every slot has its honest block; from there on any body of ChainBodies  *)
(* may come, and slots may stay empty, up to slot MaxChainSlot.            *)
(***************************************************************************)
ChainStart == 9
MaxChainSlot == 15

\* the block of the state's slot was processed (genesis has none)
HeadProcessed == state.slot = 0 \/ state.latest_block_header.slot = state.slot

ChainBlock ==
    \E body \in IF state.slot < ChainStart THEN {HonestBody(ctx, state)}
                ELSE ChainBodies(ctx, state) :
        ProcessBlock(BlockAt(ctx, state, body))

ChainSlots ==
    \E slot \in IF state.slot < ChainStart
                THEN (IF HeadProcessed THEN {state.slot + 1} ELSE {})
                ELSE (state.slot + 1)..MaxChainSlot :
        ProcessSlots(slot)

ChainNext == ChainSlots \/ ChainBlock

ChainSpec == Init /\ [][ChainNext]_vars

(***************************************************************************)
(* CopySpec: the caller makes one copy() of its context and hands it to a  *)
(* second holder; both follow their own fork up to slot MaxCopySlot, the   *)
(* second holder also calling sync_pubkeys and rotate_epochs itself.       *)
(***************************************************************************)
MaxCopySlot == 4

\* c = ctx.copy()
Copy ==
    /\ ~clone.made
    /\ clone' = [made |-> TRUE, ctx |-> ctx, state |-> state, shares |-> copy_shares]
    /\ last' = Call("copy", TRUE, "", 0, FALSE, state.slot, state.slot, <<>>)
    /\ UNCHANGED <<state, ctx>>

\* a call through the clone that left it as result.ctx
CloneReturn(op, target, result, returned) ==
    /\ clone.made
    /\ clone' = [clone EXCEPT !.ctx = result.ctx,
                              !.state = returned,
                              !.shares = still_shared(clone.shares, clone.ctx, result.ctx)]
    /\ ctx' = seen_through(ctx, clone.shares, result.ctx)
    /\ last' = Call(op, result.ok, "", 0, returned # clone.state, clone.state.slot,
                    target, <<>>)
    /\ UNCHANGED state

CloneCall(op, target, result) ==
    CloneReturn(op, target, result, IF result.ok THEN result.state ELSE clone.state)

CloneSlots ==
    \E slot \in (clone.state.slot + 1)..MaxCopySlot :
        CloneCall("copy.process_slots", slot, process_slots(clone.ctx, clone.state, slot))

CloneBlock ==
    \E block \in ForkBlocks(clone.ctx, clone.state) :
        CloneCall("copy.process_block", block.slot,
                  process_block(clone.ctx, clone.state, block))

\* c.sync_pubkeys(state) with the state of the first holder
CloneSync ==
    CloneReturn("copy.sync_pubkeys", state.slot, sync_pubkeys(clone.ctx, state), clone.state)

\* c.rotate_epochs(state) with the state of the second holder
CloneRotate ==
    /\ clone.ctx.current_shuffling.epoch <= compute_epoch_at_slot(MaxCopySlot)
    /\ CloneReturn("copy.rotate_epochs", clone.state.slot,
                   rotate_epochs(clone.ctx, clone.state), clone.state)

CopySlots == \E slot \in (state.slot + 1)..MaxCopySlot : ProcessSlots(slot)

CopyBlock == \E block \in ForkBlocks(ctx, state) : ProcessBlock(block)

CopyNext ==
    Copy \/ CloneSlots \/ CloneBlock \/ CloneSync \/ CloneRotate \/ CopySlots \/ CopyBlock

CopySpec == Init /\ [][CopyNext]_vars

(***************************************************************************)
(* ShuffleSpec: shuffle_list and unshuffle_list called on lists of up to   *)
(* MaxListLen entries with seeds up to MaxSeed, each also on the output of *)
(* the call before it with the seed of that call.  last holds the call:    *)
(* its seed, input and output, and in origin the list a round trip began   *)
(* with.  A call on a new list is the first call of a behaviour.           *)
(***************************************************************************)
MaxListLen == 10
MaxSeed == 15

\* lists of distinct entries and lists with repeated entries
ShuffleInputs ==
    {[i \in 1..n |-> i - 1] : n \in 0..MaxListLen}
    \cup {[i \in 1..n |-> i % 3] : n \in 0..MaxListLen}

ShuffleCall(op, seed, input, output, origin, round_trip) ==
    [op |-> op, ok |-> TRUE, seed |-> seed, input |-> input, output |-> output,
     origin |-> origin, round_trip |-> round_trip]

Shuffle ==
    /\ last.op = "load_state"
    /\ \E seed \in 0..MaxSeed, input \in ShuffleInputs :
           last' = ShuffleCall("shuffle_list", seed, input, shuffle_list(input, seed),
                               input, FALSE)
    /\ UNCHANGED <<state, ctx, clone>>

Unshuffle ==
    /\ last.op = "load_state"
    /\ \E seed \in 0..MaxSeed, input \in ShuffleInputs :
           last' = ShuffleCall("unshuffle_list", seed, input, unshuffle_list(input, seed),
                               input, FALSE)
    /\ UNCHANGED <<state, ctx, clone>>

\* unshuffle_list on the output of a shuffle_list, with its seed
UnshuffleBack ==
    /\ last.op = "shuffle_list"
    /\ last' = ShuffleCall("unshuffle_list", last.seed, last.output,
                           unshuffle_list(last.output, last.seed), last.input, TRUE)
    /\ UNCHANGED <<state, ctx, clone>>

\* shuffle_list on the output of an unshuffle_list, with its seed
ShuffleBack ==
    /\ last.op = "unshuffle_list"
    /\ last' = ShuffleCall("shuffle_list", last.seed, last.output,
                           shuffle_list(last.output, last.seed), last.input, TRUE)
    /\ UNCHANGED <<state, ctx, clone>>

ShuffleNext == Shuffle \/ Unshuffle \/ UnshuffleBack \/ ShuffleBack

ShuffleSpec == Init /\ [][ShuffleNext]_vars

(***************************************************************************)
(* CommitteeSpec: ShufflingEpoch made for an epoch of a registry of        *)
(* MaxRegistry validators of which any subset is active, with the randao   *)
(* mixes of the state set to any value up to MaxMix.  last holds the       *)
(* ShufflingEpoch made.                                                    *)
(***************************************************************************)
MaxRegistry == 8
MaxMix == 3
CommitteeEpoch == 2

\* validator k of the registry: active in CommitteeEpoch, or else not yet
\* activated (odd k) or exited (even k)
registry_entry(k, active) ==
    [GenesisValidator(k) EXCEPT
        !.activation_epoch = IF ~active /\ k % 2 = 1 THEN CommitteeEpoch + 1 ELSE @,
        !.exit_epoch = IF ~active /\ k % 2 = 0 THEN CommitteeEpoch ELSE @]

registry_state(active_set, mix) ==
    [GenesisState EXCEPT
        !.validators = [k \in 1..MaxRegistry |-> registry_entry(k, k \in active_set)],
        !.balances = [k \in 1..MaxRegistry |-> MAX_EFFECTIVE_BALANCE],
        !.randao_mixes = [k \in DOMAIN @ |-> mix]]

MakeShuffling ==
    /\ last.op = "load_state"
    /\ \E active_set \in SUBSET (1..MaxRegistry), mix \in 0..MaxMix :
           last' = [op |-> "ShufflingEpoch", ok |-> TRUE,
                    made |-> ShufflingEpoch(registry_state(active_set, mix),
                                 indices_bounded(registry_state(active_set, mix)),
                                 CommitteeEpoch),
                    registry |-> registry_state(active_set, mix).validators]
    /\ UNCHANGED <<state, ctx, clone>>

CommitteeSpec == Init /\ [][MakeShuffling]_vars

(***************************************************************************)
(* ChurnSpec: the caller follows a chain that queues QueuedDeposits new    *)
(* validators.  Up to slot ChurnStart every slot has its honest block;     *)
(* from there on any body of ChurnBodies may come, and slots may stay      *)
(* empty, up to slot MaxChurnSlot.                                         *)
(***************************************************************************)
ChurnStart == 10
MaxChurnSlot == 16

ChurnBlock ==
    \E body \in IF state.slot < ChurnStart THEN {ChurnBody(ctx, state)}
                ELSE ChurnBodies(ctx, state) :
        ProcessBlock(BlockAt(ctx, state, body))

ChurnSlots ==
    \E slot \in IF state.slot < ChurnStart
                THEN (IF HeadProcessed THEN {state.slot + 1} ELSE {})
                ELSE (state.slot + 1)..Min(state.slot + SLOTS_PER_EPOCH, MaxChurnSlot) :
        ProcessSlots(slot)

ChurnNext == ChurnSlots \/ ChurnBlock

ChurnSpec == Init /\ [][ChurnNext]_vars

(***************************************************************************)
(* RerunSpec: the caller follows a fork up to slot MaxRerunSlot and may    *)
(* call process_block twice with the state it holds, one block and its     *)
(* context; it keeps its state and records both outcomes in last.          *)
(***************************************************************************)
MaxRerunSlot == 4

\* what a process_block call gave back: whether it returned, the state it
\* built and the pubkey tables of the context after it
Outcome(result) ==
    [ok |-> result.ok, state |-> result.state,
     pubkey2index |-> result.ctx.pubkey2index, index2pubkey |-> result.ctx.index2pubkey]

\* process_block(epochs_ctx, state, block) and then the same call again
TwiceReturn(block, first, second) ==
    /\ ctx' = second.ctx
    /\ last' = [op |-> "process_block twice", ok |-> first.ok, block |-> block,
                first |-> Outcome(first), second |-> Outcome(second)]
    /\ clone' = clone_after(second.ctx)
    /\ UNCHANGED state

SecondRun(block, first) == TwiceReturn(block, first, process_block(first.ctx, state, block))

BlockTwice ==
    \E block \in ForkBlocks(ctx, state) : SecondRun(block, process_block(ctx, state, block))

RerunSlots == \E slot \in (state.slot + 1)..MaxRerunSlot : ProcessSlots(slot)

RerunBlock == \E block \in ForkBlocks(ctx, state) : ProcessBlock(block)

RerunNext == RerunSlots \/ RerunBlock \/ BlockTwice

RerunSpec == Init /\ [][RerunNext]_vars

(***************************************************************************)
(* JustifySpec: process_justification_and_finalization called at the end   *)
(* of every epoch from GENESIS_EPOCH to MaxJustifyEpoch, each time on the   *)
(* finality fields the call before it returned, with the target stake of   *)
(* the previous and of the current epoch at two thirds of the active stake *)
(* or at one third.  last holds the state passed, the stakes and the state *)
(* returned.                                                               *)
(***************************************************************************)
MaxJustifyEpoch == 7

\* block_roots at the last slot of an epoch of a chain with a block in
\* every slot: position k holds the root of the latest slot of that position
roots_at(last_slot) ==
    [k \in 1..SLOTS_PER_HISTORICAL_ROOT |->
        IF last_slot < k - 1 THEN 0
        ELSE header_root([slot |-> last_slot - ((last_slot - (k - 1)) % SLOTS_PER_HISTORICAL_ROOT)])]

\* s moved to the last slot of epoch
at_last_slot(s, epoch) ==
    [s EXCEPT !.slot = compute_start_slot_at_epoch(epoch + 1) - 1,
              !.block_roots = roots_at(compute_start_slot_at_epoch(epoch + 1) - 1)]

\* the fields of EpochProcess that the step reads
stakes_process(epoch, justify_prev, justify_curr) ==
    [prev_epoch |-> Max(epoch - 1, GENESIS_EPOCH),
     current_epoch |-> epoch,
     total_active_stake |-> 3 * MAX_EFFECTIVE_BALANCE,
     prev_epoch_unslashed_stake |->
         [target_stake |-> IF justify_prev THEN 2 * MAX_EFFECTIVE_BALANCE
                           ELSE MAX_EFFECTIVE_BALANCE],
     curr_epoch_unslashed_target_stake |->
         IF justify_curr THEN 2 * MAX_EFFECTIVE_BALANCE ELSE MAX_EFFECTIVE_BALANCE]

JustifyReturn(s, process, result) ==
    /\ last' = [op |-> "process_justification_and_finalization", ok |-> result.ok,
                before |-> s, process |-> process, after |-> result.state]
    /\ UNCHANGED <<state, ctx, clone>>

JustifyCall(s, process) ==
    JustifyReturn(s, process, process_justification_and_finalization(process, s))

Justify ==
    \E justify_prev \in BOOLEAN, justify_curr \in BOOLEAN :
        IF last.op = "load_state"
        THEN JustifyCall(at_last_slot(GenesisState, GENESIS_EPOCH),
                         stakes_process(GENESIS_EPOCH, justify_prev, justify_curr))
        ELSE /\ last.process.current_epoch < MaxJustifyEpoch
             /\ JustifyCall(at_last_slot(last.after, last.process.current_epoch + 1),
                            stakes_process(last.process.current_epoch + 1,
                                           justify_prev, justify_curr))

JustifySpec == Init /\ [][Justify]_vars

(***************************************************************************)
(* ActivationSpec: process_epoch called at the last slot of QueueEpoch on  *)
(* a state of the genesis validators and MaxQueue validators that wait for *)
(* their activation, eligible since any epoch before QueueEpoch.  The      *)
(* state has its finalized checkpoint at GENESIS_EPOCH or the epoch after, *)
(* and either no justification bit, or the bits of the two epochs before   *)
(* QueueEpoch, so that the transition finalizes the earlier of the two.    *)
(* last holds the state passed, the EpochProcess and the state returned.   *)
(***************************************************************************)
MaxQueue == 4
QueueEpoch == 4

\* a validator deposited with MAX_EFFECTIVE_BALANCE, eligible since epoch
queued_validator(pubkey, epoch) ==
    [GenesisValidator(pubkey) EXCEPT !.activation_eligibility_epoch = epoch,
                                     !.activation_epoch = FAR_FUTURE_EPOCH]

queue_state(eligibility, justified, finalized_epoch) ==
    LET s == at_last_slot(GenesisState, QueueEpoch)
    IN [s EXCEPT
           !.validators = @ \o [k \in 1..MaxQueue |->
                                   queued_validator(GenesisPubkeys[Len(GenesisPubkeys)] + k,
                                                    eligibility[k])],
           !.balances = @ \o [k \in 1..MaxQueue |-> MAX_EFFECTIVE_BALANCE],
           !.eth1_data = [deposit_count |-> Len(GenesisPubkeys) + MaxQueue],
           !.eth1_deposit_index = Len(GenesisPubkeys) + MaxQueue,
           !.justification_bits =
               IF justified THEN <<TRUE, TRUE, FALSE, FALSE>> ELSE @,
           !.previous_justified_checkpoint =
               IF justified
               THEN Checkpoint(QueueEpoch - 2, get_block_root(s, QueueEpoch - 2)) ELSE @,
           !.current_justified_checkpoint =
               IF justified
               THEN Checkpoint(QueueEpoch - 1, get_block_root(s, QueueEpoch - 1)) ELSE @,
           !.finalized_checkpoint =
               Checkpoint(finalized_epoch, get_block_root(s, finalized_epoch))]

EpochReturn(s, prepared, result) ==
    /\ last' = [op |-> "process_epoch", ok |-> prepared.ok /\ result.ok, before |-> s,
                process |-> prepared.process, after |-> result.state]
    /\ UNCHANGED <<state, ctx, clone>>

EpochCall(epochs_ctx, s) ==
    EpochReturn(s, prepare_epoch_process_state(epochs_ctx, s), process_epoch(epochs_ctx, s))

Activate ==
    /\ last.op = "load_state"
    /\ \E eligibility \in [1..MaxQueue -> 1..(QueueEpoch - 1)],
          justified \in BOOLEAN,
          finalized_epoch \in {GENESIS_EPOCH, GENESIS_EPOCH + 1} :
           EpochCall(load_state(EpochsContext,
                                queue_state(eligibility, justified, finalized_epoch)).ctx,
                     queue_state(eligibility, justified, finalized_epoch))

ActivationSpec == Init /\ [][Activate]_vars

(***************************************************************************)
(* SlashSpec: the caller follows a chain slot by slot up to slot            *)
(* MaxSlashSlot; up to slot LastSlashSlot a block may carry a slashing or   *)
(* the exit of the last validator.  last holds, for each validator, the     *)
(* epoch of the block that slashed it, its withdrawable_epoch after that    *)
(* block and the current_epoch of every epoch transition whose              *)
(* process_slashings lowered its balance.                                   *)
(***************************************************************************)
MaxSlashSlot == 13
LastSlashSlot == 5

Slashable == 0..(Len(GenesisPubkeys) - 1)

NoHistory ==
    [slashed_in |-> [i \in Slashable |-> -1],
     withdrawable_at |-> [i \in Slashable |-> -1],
     penalised_in |-> [i \in Slashable |-> {}]]

history_of(record) == IF "history" \in DOMAIN record THEN record.history ELSE NoHistory

\* the validators whose balance process_slashings lowers in the epoch
\* transition of s
penalised(epochs_ctx, s) ==
    LET prepared == prepare_epoch_process_state(epochs_ctx, s)
        lowered == process_slashings(prepared.process, s)
    IN IF ~prepared.ok THEN {}
       ELSE {i \in Slashable : At(lowered.balances, i) < At(s.balances, i)}

SlashBodies(epochs_ctx, s) ==
    {EmptyBody(s.eth1_data),
     [EmptyBody(s.eth1_data) EXCEPT !.voluntary_exits =
         <<VoluntaryExit(epochs_ctx.current_shuffling.epoch, Len(GenesisPubkeys) - 1, TRUE)>>]}
    \cup SlashingBodies(s)

SlashBlockReturn(result) ==
    /\ state' = IF result.ok THEN result.state ELSE state
    /\ ctx' = result.ctx
    /\ clone' = clone_after(result.ctx)
    /\ last' =
          [op |-> "process_block", ok |-> result.ok,
           history |->
              LET now(i) == result.ok /\ ~At(state.validators, i).slashed
                               /\ At(result.state.validators, i).slashed
              IN [history_of(last) EXCEPT
                     !.slashed_in = [i \in Slashable |->
                                        IF now(i) THEN compute_epoch_at_slot(state.slot)
                                        ELSE @[i]],
                     !.withdrawable_at =
                         [i \in Slashable |->
                             IF now(i) THEN At(result.state.validators, i).withdrawable_epoch
                             ELSE @[i]]]]

SlashBlock ==
    /\ state.slot <= LastSlashSlot
    /\ \E body \in SlashBodies(ctx, state) :
          SlashBlockReturn(process_block(ctx, state, BlockAt(ctx, state, body)))

SlashSlotReturn(result) ==
    /\ state' = IF result.ok THEN result.state ELSE state
    /\ ctx' = result.ctx
    /\ clone' = clone_after(result.ctx)
    /\ last' =
          [op |-> "process_slots", ok |-> result.ok,
           history |->
              IF result.ok /\ (state.slot + 1) % SLOTS_PER_EPOCH = 0
              THEN [history_of(last) EXCEPT
                       !.penalised_in =
                           [i \in Slashable |->
                               IF i \in penalised(ctx, state)
                               THEN @[i] \cup {ctx.current_shuffling.epoch}
                               ELSE @[i]]]
              ELSE history_of(last)]

SlashSlot ==
    /\ state.slot < MaxSlashSlot
    /\ SlashSlotReturn(process_slots(ctx, state, state.slot + 1))

SlashNext == SlashSlot \/ SlashBlock

SlashSpec == Init /\ [][SlashNext]_vars

(***************************************************************************)
(* Properties of block processing and of the caches, under Spec.           *)
(***************************************************************************)

C2_PubkeysFollowState ==
    /\ Cardinality(DOMAIN ctx.pubkey2index) = Len(ctx.index2pubkey)
    /\ Len(ctx.index2pubkey) = Len(state.validators)
    /\ \A i \in DOMAIN state.validators : ctx.index2pubkey[i] = state.validators[i].pubkey

\* C3: eth1_deposit_index never exceeds eth1_data.deposit_count, also after
\* a vote was adopted and after each processed deposit.
C3_DepositIndexBounded == state.eth1_deposit_index <= state.eth1_data.deposit_count

\* a block returned that adopted a vote for more deposits and processed one
C3_DepositProcessed ==
    /\ last.op = "process_block"
    /\ last.ok
    /\ last.applied > 0
    /\ state.eth1_deposit_index > Len(GenesisPubkeys)
    /\ state.eth1_data.deposit_count > state.eth1_deposit_index

\* C4: validators and balances have one length, neither list shrinks, and a
\* validator keeps its index and its pubkey.
C4_RegistryAppendOnly ==
    /\ Len(state.validators) = Len(state.balances)
    /\ [][/\ Len(state'.validators) = Len(state'.balances)
          /\ Len(state'.validators) >= Len(state.validators)
          /\ \A i \in DOMAIN state.validators :
                state'.validators[i].pubkey = state.validators[i].pubkey]_vars

\* a deposit of a new key was appended by the latest block
C4_ValidatorAppended ==
    /\ last.op = "process_block"
    /\ last.ok
    /\ Len(state.validators) > Len(GenesisPubkeys)
    /\ state.validators[Len(state.validators)].pubkey \notin Range(GenesisPubkeys)
    /\ state.eth1_deposit_index = Len(state.validators)

\* C8: process_slots raises whenever the slot asked for is not after the
\* slot of the state, and then does no per-slot update, no epoch transition
\* and no rotation.
C8_NoAdvanceRaises ==
    [][(last'.op = "process_slots" /\ last'.target <= last'.from)
        => /\ ~last'.ok
           /\ last'.events = <<>>
           /\ state' = state
           /\ ctx' = ctx]_vars

\* process_slots was asked for the slot of a state past genesis
C8_AskedForSameSlot ==
    /\ last.op = "process_slots"
    /\ last.target = last.from
    /\ last.from > 0
    /\ ~last.ok

\* The slots and committee indices get_beacon_committee is asked for.
QuerySlots == 0..(MaxSlot + 2 * SLOTS_PER_EPOCH)
QueryIndices == 0..MAX_COMMITTEES_PER_SLOT

\* the cached shufflings of the epoch of a slot
cached_for(slot) ==
    {s \in {ctx.previous_shuffling, ctx.current_shuffling, ctx.next_shuffling} :
        s.epoch = slot \div SLOTS_PER_EPOCH}

\* what C10 says of one query, given the results of the two lookups
committee_as_cached(slot, index, found, count) ==
    IF cached_for(slot) = {}
    THEN ~found.ok /\ ~count.ok
    ELSE \A s \in cached_for(slot) :
            /\ count.ok
            /\ count.count = Len(s.committees[(slot % SLOTS_PER_EPOCH) + 1])
            /\ IF index >= Len(s.committees[(slot % SLOTS_PER_EPOCH) + 1])
               THEN ~found.ok
               ELSE /\ found.ok
                    /\ found.committee =
                           s.committees[(slot % SLOTS_PER_EPOCH) + 1][index + 1]

\* C10: get_beacon_committee(slot, index) raises when the epoch of the slot
\* is not that of the previous, current or next cached shuffling or when
\* index is not below the number of committees of the slot; otherwise it
\* returns committees[slot mod SLOTS_PER_EPOCH][index] of the cached
\* shuffling of that epoch, and get_committee_count_at_slot returns the
\* number of committees of the slot.
C10_CommitteeLookup ==
    \A slot \in QuerySlots, index \in QueryIndices :
        committee_as_cached(slot, index, get_beacon_committee(ctx, slot, index),
                            get_committee_count_at_slot(ctx, slot))

\* after a rotation: a committee of the next epoch is found, one of the
\* epoch after it is not, and an index past the committees of a slot raises
C10_LookupsAfterRotation ==
    /\ ctx.current_shuffling.epoch = 1
    /\ ctx.previous_shuffling.epoch = 0
    /\ get_beacon_committee(ctx, 2 * SLOTS_PER_EPOCH + 1, 0).ok
    /\ Len(get_beacon_committee(ctx, 2 * SLOTS_PER_EPOCH + 1, 0).committee) > 0
    /\ ~get_beacon_committee(ctx, 3 * SLOTS_PER_EPOCH, 0).ok
    /\ ~get_beacon_committee(ctx, 1, get_committee_count_at_slot(ctx, 1).count).ok

(***************************************************************************)
(* Properties of the registry and of finality, under ChainSpec.            *)
(***************************************************************************)

\* the four epochs of a validator are in order wherever the earlier one is
\* set
epochs_ordered(v) ==
    /\ v.activation_eligibility_epoch # FAR_FUTURE_EPOCH
          => v.activation_eligibility_epoch <= v.activation_epoch
    /\ v.activation_epoch # FAR_FUTURE_EPOCH => v.activation_epoch <= v.exit_epoch
    /\ v.exit_epoch # FAR_FUTURE_EPOCH => v.exit_epoch <= v.withdrawable_epoch

\* C5: for every validator of every reachable state,
\* activation_eligibility_epoch <= activation_epoch <= exit_epoch <=
\* withdrawable_epoch wherever the left side is not FAR_FUTURE_EPOCH, after
\* deposits, registry updates, voluntary exits and slashings in any order.
C5_ValidatorEpochsOrdered ==
    \A i \in DOMAIN state.validators : epochs_ordered(state.validators[i])

\* a registry with a deposited validator made eligible and activated, a
\* voluntary exit, an ejection and a slashing
C5_RegistryLifecycle ==
    /\ Len(state.validators) > Len(GenesisPubkeys)
    /\ state.validators[4].activation_eligibility_epoch < state.validators[4].activation_epoch
    /\ state.validators[4].activation_epoch # FAR_FUTURE_EPOCH
    /\ state.validators[1].exit_epoch # FAR_FUTURE_EPOCH
    /\ ~state.validators[1].slashed
    /\ state.validators[2].slashed
    /\ state.validators[2].withdrawable_epoch > state.validators[2].exit_epoch
    /\ state.validators[3].exit_epoch # FAR_FUTURE_EPOCH
    /\ ~state.validators[3].slashed

\* C6: in every reachable state the finalized epoch is at most the current
\* justified epoch, which is at most the epoch of the state's slot.
C6_FinalizedJustifiedCurrent ==
    /\ state.finalized_checkpoint.epoch <= state.current_justified_checkpoint.epoch
    /\ state.current_justified_checkpoint.epoch <= compute_epoch_at_slot(state.slot)

\* an epoch transition finalized an epoch past genesis while a later epoch
\* is justified
C6_FinalizedPastGenesis ==
    /\ last.op = "process_slots"
    /\ last.ok
    /\ state.finalized_checkpoint.epoch > GENESIS_EPOCH
    /\ state.current_justified_checkpoint.epoch > state.finalized_checkpoint.epoch
    /\ state.current_justified_checkpoint.epoch < compute_epoch_at_slot(state.slot)

(***************************************************************************)
(* Properties of process_slots and of the rotation, under ExitSpec.        *)
(***************************************************************************)

\* the shufflings of a context are those of the epoch of a slot, of the
\* epoch before it (the same shuffling in the genesis epoch) and of the
\* epoch after it
shufflings_follow(context, slot) ==
    /\ context.current_shuffling.epoch = compute_epoch_at_slot(slot)
    /\ context.next_shuffling.epoch = context.current_shuffling.epoch + 1
    /\ context.previous_shuffling.epoch =
           IF context.current_shuffling.epoch = GENESIS_EPOCH THEN GENESIS_EPOCH
           ELSE context.current_shuffling.epoch - 1

\* how often process_slots did one thing
event_count(events, event) == Cardinality({k \in DOMAIN events : events[k] = event})

advanced_as_counted(events, from, target) ==
    /\ event_count(events, "slot") = target - from
    /\ event_count(events, "epoch") =
           (target \div SLOTS_PER_EPOCH) - (from \div SLOTS_PER_EPOCH)
    /\ event_count(events, "rotate") = event_count(events, "epoch")
    /\ \A k \in DOMAIN events :
          /\ events[k] = "epoch" => k < Len(events) /\ events[k + 1] = "rotate"
          /\ events[k] = "rotate" => k > 1 /\ events[k - 1] = "epoch"

\* C9 as stated: for every state S and n >= 1, process_slots(S, S.slot + n)
\* performs exactly n per-slot updates and
\* floor((S.slot + n) / SLOTS_PER_EPOCH) - floor(S.slot / SLOTS_PER_EPOCH)
\* epoch transitions, each immediately followed by one rotate_epochs, and
\* returns a state of slot S.slot + n.
C9_AdvancesAndReturns ==
    (last.op = "process_slots" /\ last.target > last.from)
        => /\ last.ok
           /\ state.slot = last.target
           /\ advanced_as_counted(last.events, last.from, last.target)

\* C9 amended: a process_slots(S, S.slot + n) call that returns has done
\* exactly n per-slot updates and one epoch transition per epoch boundary,
\* each immediately followed by one rotate_epochs, and returns a state of
\* slot S.slot + n; a call that raises instead raised in the epoch
\* transition or in the rotate_epochs on the last slot of an epoch.
C9_ReturnedAdvanceCounted ==
    (last.op = "process_slots" /\ last.target > last.from)
        => IF last.ok
           THEN /\ state.slot = last.target
                /\ advanced_as_counted(last.events, last.from, last.target)
           ELSE /\ state.slot = last.from
                /\ last.events # <<>>
                /\ last.events[Len(last.events)] \in {"slot", "epoch"}
                /\ (last.from + event_count(last.events, "slot")) % SLOTS_PER_EPOCH = 0

\* a call that returned across two epoch boundaries between slots that are
\* not the first of an epoch
C9_CrossedTwoBoundaries ==
    /\ last.op = "process_slots"
    /\ last.ok
    /\ last.from % SLOTS_PER_EPOCH # 0
    /\ last.target % SLOTS_PER_EPOCH # 0
    /\ event_count(last.events, "rotate") = 2
    /\ state.slot = last.target

(***************************************************************************)
(* Properties of the proposer lookup, under Spec.                          *)
(***************************************************************************)

\* C11: get_beacon_proposer(slot) fails when the epoch of the slot is not
\* the epoch of the current shuffling, also for slots of the cached previous
\* and next epochs; otherwise it returns proposers[slot mod SLOTS_PER_EPOCH].
C11_ProposerOfCurrentEpochOnly ==
    \A slot \in QuerySlots :
        LET found == get_beacon_proposer(ctx, slot)
            first == ctx.current_shuffling.epoch * SLOTS_PER_EPOCH
        IN IF slot \in first..(first + SLOTS_PER_EPOCH - 1)
           THEN found.ok /\ found.index = ctx.proposers[slot - first + 1]
           ELSE ~found.ok

\* a context rotated past the genesis epoch: the previous, current and next
\* epochs differ, a slot of the current epoch has a proposer and the slots
\* of the previous and of the next epoch are refused
C11_NeighbourEpochsRefused ==
    /\ last.op = "process_slots"
    /\ last.ok
    /\ ctx.previous_shuffling.epoch = ctx.current_shuffling.epoch - 1
    /\ ctx.next_shuffling.epoch = ctx.current_shuffling.epoch + 1
    /\ get_beacon_proposer(ctx, state.slot).ok
    /\ get_beacon_proposer(ctx, state.slot).index \in 0..(Len(state.validators) - 1)
    /\ ~get_beacon_proposer(ctx, state.slot - SLOTS_PER_EPOCH).ok
    /\ ~get_beacon_proposer(ctx, state.slot + SLOTS_PER_EPOCH).ok

(***************************************************************************)
(* Properties of copy(), under CopySpec.                                   *)
(***************************************************************************)

ThroughClone ==
    {"copy.process_slots", "copy.process_block", "copy.sync_pubkeys", "copy.rotate_epochs"}

\* C12: after c = ctx.copy(), sync_pubkeys, rotate_epochs, process_slots and
\* process_block applied through c leave the pubkey tables, the three
\* shufflings and the proposers of ctx unchanged, and process_slots and
\* process_block applied through ctx leave those of c unchanged.
C12_CopyIndependent ==
    [][clone.made =>
          /\ last'.op \in ThroughClone => ctx' = ctx
          /\ last'.op \in {"process_slots", "process_block"} => clone'.ctx = clone.ctx]_vars

\* both holders have processed a deposit of their own (keys 14 and 15) and
\* the clone has rotated into another epoch than the original
C12_ForksDiverged ==
    /\ clone.made
    /\ Len(ctx.index2pubkey) = Len(GenesisPubkeys) + 1
    /\ Len(clone.ctx.index2pubkey) = Len(GenesisPubkeys) + 1
    /\ ctx.index2pubkey # clone.ctx.index2pubkey
    /\ DOMAIN ctx.pubkey2index # DOMAIN clone.ctx.pubkey2index
    /\ ctx.current_shuffling.epoch # clone.ctx.current_shuffling.epoch
    /\ "current_shuffling" \notin clone.shares

(***************************************************************************)
(* Properties of the shuffle, under ShuffleSpec.                           *)
(***************************************************************************)

\* how often a value stands in a list
occurrences(list, value) == Cardinality({k \in DOMAIN list : list[k] = value})

is_permutation(a, b) ==
    /\ Len(a) = Len(b)
    /\ \A k \in DOMAIN a : occurrences(a, a[k]) = occurrences(b, a[k])

\* C13: with the same seed, unshuffle_list undoes shuffle_list and
\* shuffle_list undoes unshuffle_list, on lists of every length from 0 on,
\* and each output is a permutation of its input.
C13_ShuffleInverse ==
    last.op \in {"shuffle_list", "unshuffle_list"}
        => /\ is_permutation(last.input, last.output)
           /\ last.round_trip => last.output = last.origin

\* a round trip over a list of distinct entries that the first call had
\* reordered around a pivot in its middle, past a byte boundary of the hash
C13_ReorderedAndRestored ==
    /\ last.op = "unshuffle_list"
    /\ last.round_trip
    /\ Len(last.input) = MaxListLen
    /\ last.input # last.origin
    /\ last.input[1] # last.origin[1]
    /\ last.input[MaxListLen] # last.origin[MaxListLen]
    /\ last.output = last.origin
    /\ Cardinality({last.origin[k] : k \in DOMAIN last.origin}) = MaxListLen

(***************************************************************************)
(* Properties of the committees, under CommitteeSpec.                      *)
(***************************************************************************)

\* the committees of the slots from slot on, one after the other
RECURSIVE committees_in_order(_, _, _)
committees_in_order(committees, slot, k) ==
    IF slot > Len(committees) THEN <<>>
    ELSE IF k > Len(committees[slot]) THEN committees_in_order(committees, slot + 1, 1)
    ELSE committees[slot][k] \o committees_in_order(committees, slot, k + 1)

\* the places (slot, k, position) at which a committee holds a validator
seats(committees, index) ==
    {seat \in UNION {UNION {{<<slot, k, pos>> : pos \in DOMAIN committees[slot][k]} :
                                k \in DOMAIN committees[slot]} :
                         slot \in DOMAIN committees} :
        committees[seat[1]][seat[2]][seat[3]] = index}

\* C14: for every ShufflingEpoch the committees, taken by slot and then by
\* index, are the consecutive pieces of shuffling; they are pairwise disjoint
\* and hold every active validator exactly once and nobody else, also for
\* fewer active validators than SLOTS_PER_EPOCH and for none.
C14_CommitteesPartitionShuffling ==
    last.op = "ShufflingEpoch"
        => /\ Len(last.made.committees) = SLOTS_PER_EPOCH
           /\ committees_in_order(last.made.committees, 1, 1) = last.made.shuffling
           /\ \A k \in DOMAIN last.registry :
                 Cardinality(seats(last.made.committees, k - 1)) =
                     IF is_active(last.registry[k], last.made.epoch) THEN 1 ELSE 0
           /\ \A k \in DOMAIN last.made.active_indices :
                 is_active(last.registry[last.made.active_indices[k] + 1], last.made.epoch)

\* a ShufflingEpoch of fewer active validators than SLOTS_PER_EPOCH, which
\* has an empty committee, made of a registry with an exited validator
C14_FewerActiveThanSlots ==
    /\ last.op = "ShufflingEpoch"
    /\ Len(last.made.active_indices) = SLOTS_PER_EPOCH - 1
    /\ \E slot \in DOMAIN last.made.committees : last.made.committees[slot][1] = <<>>
    /\ \E slot \in DOMAIN last.made.committees : last.made.committees[slot][1] # <<>>
    /\ last.made.shuffling # last.made.active_indices
    /\ \E k \in DOMAIN last.registry : last.registry[k].exit_epoch <= last.made.epoch

(***************************************************************************)
(* Properties of repeated calls, under RerunSpec.                          *)
(***************************************************************************)

\* C15: process_block run twice with the same state, the same block and the
\* same EpochsContext gives equal outputs both times, the pubkey tables of
\* the context included, also for a block with a deposit of a new pubkey.
C15_SameInputsSameOutputs ==
    last.op = "process_block twice" => last.second = last.first

(***************************************************************************)
(* Properties of the epoch transition in the first epochs, under           *)
(* ChainSpec.                                                              *)
(***************************************************************************)

\* process_rewards_and_penalties left the balances of the state as they were
rewards_keep_balances(context, s, prepared) ==
    prepared.ok =>
        /\ process_rewards_and_penalties(prepared.process, s).ok
        /\ process_rewards_and_penalties(prepared.process, s).state.balances = s.balances

\* C16: in GENESIS_EPOCH process_rewards_and_penalties leaves the balances
\* as they are whatever attestations the state holds, and a process_slots
\* call that takes a state of the genesis epoch without slashed validators
\* no further than slot SLOTS_PER_EPOCH returns a state of the same balances.
C16_GenesisEpochKeepsBalances ==
    /\ [](ctx.current_shuffling.epoch = GENESIS_EPOCH
            => rewards_keep_balances(ctx, state, prepare_epoch_process_state(ctx, state)))
    /\ [][(/\ last'.op = "process_slots"
           /\ last'.ok
           /\ compute_epoch_at_slot(state.slot) = GENESIS_EPOCH
           /\ state'.slot <= SLOTS_PER_EPOCH
           /\ \A k \in DOMAIN state.validators : ~state.validators[k].slashed)
              => state'.balances = state.balances]_vars

\* the epoch transition out of the genesis epoch was made on a state that
\* held attestations, which the returned state holds as those of the
\* previous epoch
C16_LeftGenesisWithAttestations ==
    /\ last.op = "process_slots"
    /\ last.ok
    /\ last.from < SLOTS_PER_EPOCH
    /\ state.slot = SLOTS_PER_EPOCH
    /\ state.previous_epoch_attestations # <<>>
    /\ \A k \in DOMAIN state.balances : state.balances[k] = MAX_EFFECTIVE_BALANCE

\* process_justification_and_finalization returned the state it was given
justification_keeps_state(s, prepared) ==
    prepared.ok =>
        process_justification_and_finalization(prepared.process, s) = [ok |-> TRUE, state |-> s]

finality_fields(s) ==
    <<s.justification_bits, s.previous_justified_checkpoint,
      s.current_justified_checkpoint, s.finalized_checkpoint>>

\* C17: while current_epoch <= GENESIS_EPOCH + 1,
\* process_justification_and_finalization returns the state it was given
\* whatever the attesting stake, so a process_slots call that ends no later
\* than the first slot of epoch GENESIS_EPOCH + 2 leaves justification_bits
\* and the previous justified, current justified and finalized checkpoints
\* as they were.
C17_NoJustificationInFirstEpochs ==
    /\ [](ctx.current_shuffling.epoch <= GENESIS_EPOCH + 1
            => justification_keeps_state(state, prepare_epoch_process_state(ctx, state)))
    /\ [][(/\ last'.op = "process_slots"
           /\ last'.ok
           /\ state'.slot <= compute_start_slot_at_epoch(GENESIS_EPOCH + 2))
              => finality_fields(state') = finality_fields(state)]_vars

\* the last slot of epoch GENESIS_EPOCH + 1 with its block processed: two
\* thirds of the stake attested to the target of the previous epoch, and
\* process_justification_and_finalization returns the state as it is
C17_SupermajorityIgnored ==
    /\ ctx.current_shuffling.epoch = GENESIS_EPOCH + 1
    /\ state.slot = compute_start_slot_at_epoch(GENESIS_EPOCH + 2) - 1
    /\ HeadProcessed
    /\ prepare_epoch_process_state(ctx, state).ok
    /\ prepare_epoch_process_state(ctx, state).process.prev_epoch_unslashed_stake.target_stake * 3
           >= prepare_epoch_process_state(ctx, state).process.total_active_stake * 2
    /\ process_justification_and_finalization(
           prepare_epoch_process_state(ctx, state).process, state).state = state

(***************************************************************************)
(* Properties of the churn, under ChurnSpec.                               *)
(***************************************************************************)
\* the validators of s whose exit_epoch is epoch
leaving_at(s, epoch) ==
    {k \in DOMAIN s.validators : s.validators[k].exit_epoch = epoch}

\* the validators that s holds without activation_epoch and that have one
\* in after
activated_between(s, after) ==
    {k \in DOMAIN s.validators :
        /\ s.validators[k].activation_epoch = FAR_FUTURE_EPOCH
        /\ after.validators[k].activation_epoch # FAR_FUTURE_EPOCH}

\* the validators of s that wait for their activation and are eligible at
\* the epoch of s and at finality_epoch
queued_at(s, finality_epoch) ==
    {k \in DOMAIN s.validators :
        /\ s.validators[k].activation_epoch = FAR_FUTURE_EPOCH
        /\ s.validators[k].activation_eligibility_epoch <= compute_epoch_at_slot(s.slot)
        /\ s.validators[k].activation_eligibility_epoch <= finality_epoch}

\* the quotient of the churn limit is below the minimum
churn_clamped(s) ==
    Cardinality({k \in DOMAIN s.validators :
                    is_active_flat_validator(s.validators[k], compute_epoch_at_slot(s.slot))})
        \div CHURN_LIMIT_QUOTIENT < MIN_PER_EPOCH_CHURN_LIMIT

\* C18: while the quotient of the churn limit is below
\* MIN_PER_EPOCH_CHURN_LIMIT, at most MIN_PER_EPOCH_CHURN_LIMIT validators
\* share one exit_epoch, whether it comes from an ejection, a voluntary
\* exit or a slashing; a process_slots call activates at most
\* MIN_PER_EPOCH_CHURN_LIMIT validators per epoch transition, and one epoch
\* transition activates MIN_PER_EPOCH_CHURN_LIMIT of them when that many
\* are queued (all the queued ones when they are fewer).
C18_ChurnClamped ==
    /\ [](churn_clamped(state)
            => \A k \in DOMAIN state.validators :
                  state.validators[k].exit_epoch # FAR_FUTURE_EPOCH
                     => Cardinality(leaving_at(state, state.validators[k].exit_epoch))
                           <= MIN_PER_EPOCH_CHURN_LIMIT)
    /\ [][(churn_clamped(state) /\ last'.op = "process_slots" /\ last'.ok)
            => LET transitions == event_count(last'.events, "epoch")
                   activated == Cardinality(activated_between(state, state'))
               IN /\ activated <= MIN_PER_EPOCH_CHURN_LIMIT * transitions
                  /\ transitions = 1
                       => activated =
                            Min(MIN_PER_EPOCH_CHURN_LIMIT,
                                Cardinality(queued_at(state, state'.finalized_checkpoint.epoch)))]_vars

\* one epoch transition has activated MIN_PER_EPOCH_CHURN_LIMIT of the
\* QueuedDeposits validators that waited, and of three validators slashed
\* in one block two leave at one epoch and the third at the next
C18_QueueLongerThanChurn ==
    /\ last.op = "process_slots" /\ last.ok
    /\ event_count(last.events, "epoch") = 1
    /\ Cardinality({k \in DOMAIN state.validators :
                       state.validators[k].activation_epoch
                          = compute_activation_exit_epoch(compute_epoch_at_slot(state.slot) - 1)})
          = MIN_PER_EPOCH_CHURN_LIMIT
    /\ Cardinality(queued_at(state, state.finalized_checkpoint.epoch)) = 1
    /\ \E epoch \in 1..compute_epoch_at_slot(MaxChurnSlot) + MAX_SEED_LOOKAHEAD + 1 :
          /\ Cardinality(leaving_at(state, epoch)) = MIN_PER_EPOCH_CHURN_LIMIT
          /\ leaving_at(state, epoch + 1) # {}

(***************************************************************************)
(* Properties of deposits and of the deposit count, under Spec.            *)
(***************************************************************************)
\* the pubkeys of the registry of s
registry_pubkeys(s) == {s.validators[k].pubkey : k \in DOMAIN s.validators}

\* a deposit with a valid proof whose proof of possession fails
Unpossessed(pubkey) == Deposit(pubkey, MAX_EFFECTIVE_BALANCE, TRUE, FALSE)

\* process_deposit returns normally; it has counted the deposit and changed
\* neither the rest of s nor the tables of context
deposit_skipped(context, s, deposit) ==
    /\ process_deposit(context, s, deposit).ok
    /\ process_deposit(context, s, deposit).state
          = [s EXCEPT !.eth1_deposit_index = @ + 1]
    /\ process_deposit(context, s, deposit).ctx = context

\* the operations of a body with this deposit and these exits end as the
\* exits alone do on s with the deposit counted
rest_processed(context, s, deposit, exits) ==
    LET body == [EmptyBody(s.eth1_data) EXCEPT !.deposits = <<deposit>>,
                                              !.voluntary_exits = exits]
        whole == apply_operations(
                     [ok |-> TRUE, state |-> s, ctx |-> context, applied |-> 0],
                     operations_of(body))
        rest == apply_operations(
                    [ok |-> TRUE, state |-> [s EXCEPT !.eth1_deposit_index = @ + 1],
                     ctx |-> context, applied |-> 1],
                    operations_of([body EXCEPT !.deposits = <<>>]))
    IN whole = rest

\* C19: a deposit with a valid proof, for a pubkey of no validator of the
\* state, whose proof of possession fails: process_deposit returns
\* normally, eth1_deposit_index is one more, validators, balances and the
\* pubkey tables are as they were, and the exits after it in the block are
\* processed.
C19_UnpossessedDepositSkipped ==
    \A pubkey \in {14, 15} \ registry_pubkeys(state) :
        /\ deposit_skipped(ctx, state, Unpossessed(pubkey))
        /\ \A exits \in ExitChoices(ctx) :
              rest_processed(ctx, state, Unpossessed(pubkey), exits)

\* bodies with any vote of Eth1Votes and up to MAX_DEPOSITS + 1 deposits,
\* whatever the vote calls for
CountedBodies(s) ==
    {[EmptyBody(choice[1]) EXCEPT !.deposits = choice[2]] :
        choice \in Eth1Votes(s) \X UNION {DepositSeqs(k) : k \in 0..(MAX_DEPOSITS + 1)}}

\* min(MAX_DEPOSITS, eth1_data.deposit_count - eth1_deposit_index) of s once
\* the vote of body is processed
deposits_called_for(context, s, body) ==
    Min(MAX_DEPOSITS,
        process_eth1_data(context, s, body).state.eth1_data.deposit_count
           - s.eth1_deposit_index)

\* the call raises, no operation was applied and context is untouched
refused_unapplied(context, result) ==
    ~result.ok /\ result.applied = 0 /\ result.ctx = context

\* C20: process_block of a body whose number of deposits is not
\* min(MAX_DEPOSITS, deposit_count - eth1_deposit_index), counted with the
\* eth1_data that the vote of the body itself leaves, raises before any
\* operation is applied.
C20_DepositCountVerified ==
    \A body \in CountedBodies(state) :
        Len(body.deposits) # deposits_called_for(ctx, state, body)
           => refused_unapplied(ctx, process_block(ctx, state, BlockAt(ctx, state, body)))

\* a block was refused by process_operations before its first operation;
\* the state calls for no deposit, the vote of a body is adopted and calls
\* for one: without deposit the body is refused by process_operations, with
\* one deposit it is processed
C20_VoteOfTheBlockCounts ==
    /\ last.op = "process_block" /\ ~last.ok
    /\ last.step = "operations" /\ last.applied = 0
    /\ state.eth1_data.deposit_count = state.eth1_deposit_index
    /\ \E body \in CountedBodies(state) :
          /\ body.deposits = <<>>
          /\ deposits_called_for(ctx, state, body) = 1
          /\ process_block(ctx, state, BlockAt(ctx, state, body)).step = "operations"
          /\ process_block(ctx, state,
                 BlockAt(ctx, state,
                         [body EXCEPT !.deposits =
                             <<Deposit(14, MAX_EFFECTIVE_BALANCE, TRUE, TRUE)>>])).ok

(***************************************************************************)
(* Properties of the steps of a block, under ChainSpec.                    *)
(***************************************************************************)
\* a body that passes process_operations on s: the vote of s and the
\* deposits it calls for
PlainBody(context, s) ==
    [EmptyBody(s.eth1_data) EXCEPT
        !.deposits = [k \in 1..required_deposits(context, s, s.eth1_data) |->
                         Deposit(14, MAX_EFFECTIVE_BALANCE, TRUE, TRUE)]]

\* blocks of the slot of s and of its neighbours, by any validator, on the
\* latest header or not
HeaderBlocks(context, s) ==
    {[slot |-> slot, proposer_index |-> proposer_index,
      parent_root |-> header_root(s.latest_block_header) + wrong,
      body |-> PlainBody(context, s)] :
        slot \in Max(0, s.slot - 1)..(s.slot + 1),
        proposer_index \in 0..(Len(s.validators) - 1),
        wrong \in {0, 1}}

\* what the claim asks of a block that process_block accepts
header_accepts(context, s, block) ==
    /\ block.slot = s.slot
    /\ block.slot > s.latest_block_header.slot
    /\ get_beacon_proposer(context, s.slot).ok
    /\ block.proposer_index = get_beacon_proposer(context, s.slot).index
    /\ ~At(s.validators, block.proposer_index).slashed

\* C21: process_block returns only for a block of the slot of the state,
\* newer than the latest header, by the proposer of the slot, who is not
\* slashed; a process_block that returns leaves the header of the block, at
\* the slot of the state and with a zero state_root, as the latest header,
\* and no block is accepted on a state whose latest header is of its slot:
\* between two accepted blocks process_slots has advanced the slot.
C21_OneBlockPerSlot ==
    /\ [](\A block \in HeaderBlocks(ctx, state) :
             /\ process_block(ctx, state, block).ok => header_accepts(ctx, state, block)
             /\ state.latest_block_header.slot = state.slot
                   => ~process_block(ctx, state, block).ok)
    /\ [][(last'.op = "process_block" /\ last'.ok)
            => /\ state.latest_block_header.slot < state.slot
               /\ state'.slot = state.slot
               /\ state'.latest_block_header.slot = state'.slot
               /\ state'.latest_block_header.state_root = 0]_vars

\* a block was accepted, a second block on its header is refused by
\* process_block_header, and the proposer of the slot is slashed
C21_SecondBlockRefused ==
    /\ last.op = "process_block" /\ last.ok
    /\ process_block(ctx, state, BlockAt(ctx, state, PlainBody(ctx, state))).step = "header"
    /\ At(state.validators, expected_proposer(ctx, state)).slashed

\* bodies that mix the kinds: a proposer slashing of validator 1, an
\* attester slashing of validators 1 and 2, the attestations of the slot,
\* and exits of validator 1 or of all genesis validators in both orders
MixedBodies(context, s) ==
    {[PlainBody(context, s) EXCEPT
         !.proposer_slashings = choice[1], !.attester_slashings = choice[2],
         !.attestations = choice[3], !.voluntary_exits = choice[4]] :
        choice \in
            {<<>>, <<ProposerSlashing(1, TRUE, TRUE, TRUE)>>}
            \X {<<>>, <<AttesterSlashing(IndexedAttestation(<<1, 2>>, DoubleVote(0), TRUE),
                                         IndexedAttestation(<<1, 2>>, DoubleVote(1), TRUE))>>}
            \X {<<>>, HonestAttestations(context, s)}
            \X {<<>>,
                <<VoluntaryExit(compute_epoch_at_slot(s.slot), 1, TRUE)>>,
                [k \in 1..3 |-> VoluntaryExit(compute_epoch_at_slot(s.slot), k - 1, TRUE)],
                [k \in 1..3 |-> VoluntaryExit(compute_epoch_at_slot(s.slot), 3 - k, TRUE)]}}

\* the operations of one kind, in the order of items, each on the result
\* of the one before it, up to the first that raises
RECURSIVE each_in_turn(_, _, _)
each_in_turn(kind, items, done) ==
    IF items = <<>> \/ ~done.ok THEN done
    ELSE each_in_turn(kind, Tail(items),
             applied_one(done.applied,
                         apply_operation(done.ctx, done.state,
                                         [kind |-> kind, op |-> Head(items)])))

\* the kinds of a body one after the other in the order of the claim
in_kind_order(context, s, body) ==
    each_in_turn("voluntary_exit", body.voluntary_exits,
      each_in_turn("deposit", body.deposits,
        each_in_turn("attestation", body.attestations,
          each_in_turn("attester_slashing", body.attester_slashings,
            each_in_turn("proposer_slashing", body.proposer_slashings,
              [ok |-> TRUE, state |-> s, ctx |-> context, applied |-> 0])))))

\* C22: the operations of a body are applied as proposer slashings,
\* attester slashings, attestations, deposits, voluntary exits, in body
\* order within a kind, each on the state the ones before it left; the
\* first one that raises ends the block, and the caller is left with the
\* state it passed.
C22_OperationsInKindOrder ==
    /\ [](\A body \in MixedBodies(ctx, state) :
             /\ process_operations(ctx, state, body) = in_kind_order(ctx, state, body)
             /\ ~in_kind_order(ctx, state, body).ok
                   => ~process_block(ctx, state, BlockAt(ctx, state, body)).ok)
    /\ [][(last'.op = "process_block" /\ ~last'.ok) => state' = state]_vars

\* a state where the proposer slashing of validator 1 alone and the exit of
\* validator 1 alone are accepted, and a body with both raises at the exit
\* with the slashing applied; and where of three exits the last one in the
\* body gets the later exit_epoch
C22_SlashingBeforeExit ==
    LET plain == PlainBody(ctx, state)
        slashing == <<ProposerSlashing(1, TRUE, TRUE, TRUE)>>
        exit == <<VoluntaryExit(compute_epoch_at_slot(state.slot), 1, TRUE)>>
        exits == [k \in 1..3 |-> VoluntaryExit(compute_epoch_at_slot(state.slot), k - 1, TRUE)]
        three == process_operations(ctx, state, [plain EXCEPT !.voluntary_exits = exits])
    IN /\ process_operations(ctx, state, [plain EXCEPT !.proposer_slashings = slashing]).ok
       /\ process_operations(ctx, state, [plain EXCEPT !.voluntary_exits = exit]).ok
       /\ ~process_operations(ctx, state, [plain EXCEPT !.proposer_slashings = slashing,
                                                        !.voluntary_exits = exit]).ok
       /\ process_operations(ctx, state, [plain EXCEPT !.proposer_slashings = slashing,
                                                       !.voluntary_exits = exit]).applied = 1
       /\ three.ok
       /\ three.state.validators[3].exit_epoch > three.state.validators[1].exit_epoch

(***************************************************************************)
(* Properties of justification and finalization, under ChainSpec.          *)
(***************************************************************************)
justifies_previous(process) ==
    process.prev_epoch_unslashed_stake.target_stake * 3 >= process.total_active_stake * 2

justifies_current(process) ==
    process.curr_epoch_unslashed_target_stake * 3 >= process.total_active_stake * 2

\* after holds the justification of the claim for an epoch transition of s
\* with this process
justified_as_claimed(s, process, after) ==
    /\ after.previous_justified_checkpoint = s.current_justified_checkpoint
    /\ Len(after.justification_bits) = Len(s.justification_bits)
    /\ \A k \in 2..(Len(s.justification_bits) - 1) :
          after.justification_bits[k + 1] = s.justification_bits[k]
    /\ after.justification_bits[2] = (s.justification_bits[1] \/ justifies_previous(process))
    /\ after.justification_bits[1] = justifies_current(process)
    /\ after.current_justified_checkpoint =
          IF justifies_current(process)
          THEN Checkpoint(process.current_epoch, get_block_root(s, process.current_epoch))
          ELSE IF justifies_previous(process)
          THEN Checkpoint(process.prev_epoch, get_block_root(s, process.prev_epoch))
          ELSE s.current_justified_checkpoint

\* process_justification_and_finalization on s, past epoch GENESIS_EPOCH + 1,
\* justifies as claimed when it returns
justification_step_as_claimed(s, prepared) ==
    (/\ prepared.ok
     /\ prepared.process.current_epoch > GENESIS_EPOCH + 1
     /\ process_justification_and_finalization(prepared.process, s).ok)
        => justified_as_claimed(s, prepared.process,
               process_justification_and_finalization(prepared.process, s).state)

\* process_slots went from the last slot of an epoch past GENESIS_EPOCH + 1
\* to the next slot
one_transition(before, after, epochs_ctx) ==
    /\ after.slot = before.slot + 1
    /\ after.slot % SLOTS_PER_EPOCH = 0
    /\ epochs_ctx.current_shuffling.epoch = compute_epoch_at_slot(before.slot)
    /\ compute_epoch_at_slot(before.slot) > GENESIS_EPOCH + 1

\* C23: in an epoch transition with current_epoch > GENESIS_EPOCH + 1 the
\* previous justified checkpoint becomes the old current one; the
\* justification bits move up by one position, the oldest is dropped; bit 1
\* is also set when the previous-epoch target stake is two thirds of the
\* active stake, bit 0 is set exactly when the current-epoch target stake
\* is; the current justified checkpoint is that of the current epoch in the
\* second case, else that of the previous epoch in the first case, else
\* unchanged.
C23_JustificationStep ==
    /\ [](justification_step_as_claimed(state, prepare_epoch_process_state(ctx, state)))
    /\ [][(last'.op = "process_slots" /\ last'.ok /\ one_transition(state, state', ctx))
            => justified_as_claimed(process_slot(state),
                   prepare_epoch_process_state(ctx, process_slot(state)).process,
                   state')]_vars

\* an epoch transition past GENESIS_EPOCH + 1 was made with the target
\* stakes of the previous and of the current epoch at two thirds: bits 0 and
\* 1 are set, the bit that was at position 1 is at position 2, the current
\* epoch of the transition is justified and the checkpoint justified before
\* is the previous one
C23_CurrentEpochWins ==
    /\ last.op = "process_slots" /\ last.ok
    /\ state.slot % SLOTS_PER_EPOCH = 0
    /\ compute_epoch_at_slot(state.slot) > GENESIS_EPOCH + 2
    /\ state.justification_bits[1] /\ state.justification_bits[2]
    /\ state.justification_bits[3]
    /\ state.current_justified_checkpoint.epoch = compute_epoch_at_slot(state.slot) - 1
    /\ state.previous_justified_checkpoint.epoch = compute_epoch_at_slot(state.slot) - 2

\* bits k (counted from 0) of from..to are all set
bits_set(bits, from, to) == \A k \in from..to : bits[k + 1]

\* the finalized checkpoint of the claim: the last of the four rules that
\* matches decides
finalized_as_claimed(bits, old_prev, old_curr, current_epoch, finalized) ==
    IF bits_set(bits, 0, 1) /\ old_curr.epoch + 1 = current_epoch THEN old_curr
    ELSE IF bits_set(bits, 0, 2) /\ old_curr.epoch + 2 = current_epoch THEN old_curr
    ELSE IF bits_set(bits, 1, 2) /\ old_prev.epoch + 2 = current_epoch THEN old_prev
    ELSE IF bits_set(bits, 1, 3) /\ old_prev.epoch + 3 = current_epoch THEN old_prev
    ELSE finalized

\* after holds the finalized checkpoint of the claim for an epoch
\* transition of s
finalization_as_claimed(s, current_epoch, after) ==
    after.finalized_checkpoint =
        finalized_as_claimed(after.justification_bits, s.previous_justified_checkpoint,
                             s.current_justified_checkpoint, current_epoch,
                             s.finalized_checkpoint)

\* C24: the finalized checkpoint after the step is decided by the four
\* rules on the new bits and on the justified checkpoints of before it: the
\* old current one when bits 0,1 are set and it is one epoch old, or bits
\* 0,1,2 and two epochs; else the old previous one when bits 1,2 are set and
\* it is two epochs old, or bits 1,2,3 and three epochs; else the finalized
\* checkpoint stays.
C24_FinalizationRules ==
    (/\ last.op = "process_justification_and_finalization"
     /\ last.process.current_epoch > GENESIS_EPOCH + 1)
        => /\ last.ok
           /\ finalization_as_claimed(last.before, last.process.current_epoch, last.after)

\* the rule of bits 1,2 matches for the old previous justified checkpoint
\* and the rule of bits 0,1 for the old current one, a different
\* checkpoint, which is the one finalized
C24_LaterRuleWins ==
    /\ last.op = "process_justification_and_finalization"
    /\ bits_set(last.after.justification_bits, 0, 2)
    /\ last.before.previous_justified_checkpoint.epoch + 2 = last.process.current_epoch
    /\ last.before.current_justified_checkpoint.epoch + 1 = last.process.current_epoch
    /\ last.before.previous_justified_checkpoint # last.before.current_justified_checkpoint
    /\ last.after.finalized_checkpoint = last.before.current_justified_checkpoint

(***************************************************************************)
(* Properties of accepted deposits, under Spec.                            *)
(***************************************************************************)
\* deposits with a valid proof and a valid signature: of a genesis key and
\* of two other keys, of a full amount and of one that is no multiple of
\* EFFECTIVE_BALANCE_INCREMENT
ProvenDeposits ==
    {Deposit(pubkey, amount, TRUE, TRUE) :
        pubkey \in {GenesisPubkeys[1], 14, 15},
        amount \in {MAX_EFFECTIVE_BALANCE, EFFECTIVE_BALANCE_INCREMENT + 500}}

\* the validator the claim appends for a deposit
claimed_validator(deposit) ==
    [pubkey |-> deposit.pubkey,
     activation_eligibility_epoch |-> FAR_FUTURE_EPOCH,
     activation_epoch |-> FAR_FUTURE_EPOCH,
     exit_epoch |-> FAR_FUTURE_EPOCH,
     withdrawable_epoch |-> FAR_FUTURE_EPOCH,
     effective_balance |->
         Min(deposit.amount - (deposit.amount % EFFECTIVE_BALANCE_INCREMENT),
             MAX_EFFECTIVE_BALANCE),
     slashed |-> FALSE]

\* result is s with the deposit counted and one validator and balance more,
\* and the table maps the pubkey to the old validator count
appended_as_claimed(s, deposit, result) ==
    /\ result.ok
    /\ result.state = [s EXCEPT !.eth1_deposit_index = @ + 1,
                                !.validators = Append(@, claimed_validator(deposit)),
                                !.balances = Append(@, deposit.amount)]
    /\ deposit.pubkey \in DOMAIN result.ctx.pubkey2index
    /\ result.ctx.pubkey2index[deposit.pubkey] = Len(s.validators)

\* result is s with the deposit counted and the amount added to the balance
\* that the table of context names
topped_up_as_claimed(context, s, deposit, result) ==
    /\ result.ok
    /\ context.pubkey2index[deposit.pubkey] < Len(s.balances)
    /\ result.state =
          [s EXCEPT !.eth1_deposit_index = @ + 1,
                    !.balances[context.pubkey2index[deposit.pubkey] + 1] = @ + deposit.amount]

\* process_deposit of a deposit, and of the same deposit again on its result
deposit_as_claimed(context, s, deposit, result) ==
    IF deposit.pubkey \in DOMAIN context.pubkey2index
    THEN topped_up_as_claimed(context, s, deposit, result)
    ELSE /\ appended_as_claimed(s, deposit, result)
         /\ topped_up_as_claimed(result.ctx, result.state, deposit,
                process_deposit(result.ctx, result.state, deposit))

\* C25: a deposit with a valid proof and signature for a pubkey that the
\* table does not hold appends one validator (the four epochs at
\* FAR_FUTURE_EPOCH, the effective balance the amount rounded down, at most
\* MAX_EFFECTIVE_BALANCE) and one balance of the amount, and the table
\* maps the pubkey to the old validator count; for a pubkey of the table,
\* also one that the deposit before it added, the amount is added to
\* balances[pubkey2index[pubkey]] and no validator is appended; either way
\* eth1_deposit_index is one more.
C25_DepositAppendsOrTopsUp ==
    \A deposit \in ProvenDeposits :
        deposit_as_claimed(ctx, state, deposit, process_deposit(ctx, state, deposit))

(***************************************************************************)
(* Properties of slashings, attestations and exits, under ChainSpec.       *)
(***************************************************************************)
\* validator number index (from 0) of s
validator_at(s, index) == s.validators[index + 1]

\* the record of the claim for the slashed validator: exited is its record
\* after the exit was initiated
slashed_record(exited, epoch) ==
    [exited EXCEPT !.slashed = TRUE,
                   !.withdrawable_epoch =
                       IF exited.withdrawable_epoch >= epoch + EPOCHS_PER_SLASHINGS_VECTOR
                       THEN exited.withdrawable_epoch
                       ELSE epoch + EPOCHS_PER_SLASHINGS_VECTOR]

\* the balance of the claim for validator k after validator index was
\* slashed in a block of proposer
slashed_balance(s, k, index, proposer) ==
    LET effective_balance == validator_at(s, index).effective_balance
        penalty == effective_balance \div MIN_SLASHING_PENALTY_QUOTIENT
        charged == IF k # index THEN s.balances[k + 1]
                   ELSE IF s.balances[k + 1] < penalty THEN 0
                   ELSE s.balances[k + 1] - penalty
    IN IF k = proposer
       THEN charged + (effective_balance \div WHISTLEBLOWER_REWARD_QUOTIENT)
       ELSE charged

\* after is s with validator index slashed as the claim says
slashed_as_claimed(context, s, index, after) ==
    LET epoch == compute_epoch_at_slot(s.slot)
        proposer == context.proposers[(s.slot % SLOTS_PER_EPOCH) + 1]
        exited == validator_at(initiate_validator_exit(context, s, index), index)
    IN /\ exited.exit_epoch # FAR_FUTURE_EPOCH
       /\ after =
            [s EXCEPT
                !.validators = [k \in DOMAIN s.validators |->
                                   IF k = index + 1 THEN slashed_record(exited, epoch)
                                   ELSE s.validators[k]],
                !.slashings = [k \in DOMAIN s.slashings |->
                                  IF k = (epoch % EPOCHS_PER_SLASHINGS_VECTOR) + 1
                                  THEN s.slashings[k] + validator_at(s, index).effective_balance
                                  ELSE s.slashings[k]],
                !.balances = [k \in DOMAIN s.balances |->
                                 slashed_balance(s, k - 1, index, proposer)]]

\* C26: slash_validator(i) initiates the exit of i, marks it slashed, sets
\* withdrawable_epoch to the larger of its value after the exit and
\* current_epoch + EPOCHS_PER_SLASHINGS_VECTOR, adds the effective balance
\* of i to slashings[current_epoch mod EPOCHS_PER_SLASHINGS_VECTOR], takes
\* effective_balance / MIN_SLASHING_PENALTY_QUOTIENT from the balance of i
\* (down to 0 at most) and gives the whole
\* effective_balance / WHISTLEBLOWER_REWARD_QUOTIENT to the proposer of the
\* slot; nothing else of the state changes.
C26_SlashValidator ==
    \A index \in 0..(Len(state.validators) - 1) :
        /\ slash_validator(ctx, state, index).ok
        /\ slashed_as_claimed(ctx, state, index, slash_validator(ctx, state, index).state)
        /\ slash_validator(ctx, state, index).ctx = ctx

\* a block with a slashing of its own proposer was accepted: the proposer
\* is slashed and leaves, and its balance is the one before the block less
\* the penalty plus the reward
C26_ProposerSlashedItself ==
    LET proposer == state.latest_block_header.proposer_index
        effective_balance == validator_at(state, proposer).effective_balance
    IN /\ last.op = "process_block" /\ last.ok
       /\ state.latest_block_header.slot = state.slot
       /\ validator_at(state, proposer).slashed
       /\ validator_at(state, proposer).exit_epoch # FAR_FUTURE_EPOCH
       /\ validator_at(state, proposer).withdrawable_epoch
             = compute_epoch_at_slot(state.slot) + EPOCHS_PER_SLASHINGS_VECTOR
       /\ state.slashings[(compute_epoch_at_slot(state.slot) % EPOCHS_PER_SLASHINGS_VECTOR) + 1]
             = effective_balance

\* attester slashings by double vote: of all genesis validators, of two of
\* them, of one, and of attestations without a common validator
DoubleVotes ==
    {AttesterSlashing(IndexedAttestation(pair[1], DoubleVote(0), TRUE),
                      IndexedAttestation(pair[2], DoubleVote(1), TRUE)) :
        pair \in {<<<<0, 1, 2>>, <<0, 1, 2>>>>, <<<<0, 1, 2>>, <<1, 2>>>>,
                  <<<<0, 1>>, <<1, 2>>>>, <<<<0>>, <<1, 2>>>>}}

\* the validators of both attestations
common_indices(attester_slashing) ==
    Range(attester_slashing.attestation_1.attesting_indices)
       \cap Range(attester_slashing.attestation_2.attesting_indices)

\* those of them that are slashable at the epoch of s
slashable_indices(s, attester_slashing) ==
    {index \in common_indices(attester_slashing) :
        is_slashable(validator_at(s, index), compute_epoch_at_slot(s.slot))}

\* slash_validator for the validators of indices, the smallest index first
RECURSIVE slash_ascending(_, _, _)
slash_ascending(context, s, indices) ==
    IF indices = {} THEN s
    ELSE LET least == CHOOSE index \in indices : \A other \in indices : index <= other
         IN slash_ascending(context, slash_validator(context, s, least).state,
                            indices \ {least})

\* what holds of every attester slashing: it is accepted exactly when some
\* common validator is slashable, and then the state is the one after
\* slash_validator for the slashable common validators in ascending order
slashes_in_order(context, s, attester_slashing) ==
    LET result == process_attester_slashing(context, s, attester_slashing)
    IN /\ result.ok = (slashable_indices(s, attester_slashing) # {})
       /\ result.ok =>
            result.state = slash_ascending(context, s, slashable_indices(s, attester_slashing))

\* record and balance of the validators of others are in after as in s
untouched(s, after, others) ==
    \A index \in others :
        /\ validator_at(after, index) = validator_at(s, index)
        /\ after.balances[index + 1] = s.balances[index + 1]

all_indices(s) == 0..(Len(s.validators) - 1)

\* C27 as stated: an accepted attester slashing slashes the slashable
\* common validators in ascending order, each on the state the one before
\* left; the validators outside the intersection are untouched; without a
\* slashable common validator the operation raises.
C27_OutsideUntouched ==
    \A attester_slashing \in DoubleVotes :
        /\ slashes_in_order(ctx, state, attester_slashing)
        /\ process_attester_slashing(ctx, state, attester_slashing).ok
              => untouched(state, process_attester_slashing(ctx, state, attester_slashing).state,
                           all_indices(state) \ common_indices(attester_slashing))

\* C27, amended: as above, where the validators that are not slashed, in
\* the intersection or not, keep their record and, but for the proposer of
\* the slot, who is paid the whistleblower rewards, their balance.
C27_OutsideKeepRecords ==
    \A attester_slashing \in DoubleVotes :
        LET result == process_attester_slashing(ctx, state, attester_slashing)
            spared == all_indices(state) \ slashable_indices(state, attester_slashing)
        IN /\ slashes_in_order(ctx, state, attester_slashing)
           /\ result.ok
                => /\ \A index \in spared :
                         validator_at(result.state, index) = validator_at(state, index)
                   /\ untouched(state, result.state,
                                spared \ {ctx.proposers[(state.slot % SLOTS_PER_EPOCH) + 1]})
                   /\ \A index \in slashable_indices(state, attester_slashing) :
                         validator_at(result.state, index).slashed

\* an attester slashing of the three genesis validators is accepted in a
\* state where one of them is not slashable any more: the two others are
\* slashed, the third keeps its record
C27_OneOfThreeSpared ==
    LET attester_slashing ==
            AttesterSlashing(IndexedAttestation(<<0, 1, 2>>, DoubleVote(0), TRUE),
                             IndexedAttestation(<<0, 1, 2>>, DoubleVote(1), TRUE))
    IN /\ process_attester_slashing(ctx, state, attester_slashing).ok
       /\ Cardinality(slashable_indices(state, attester_slashing)) = 2
       /\ last.op = "process_block" /\ last.ok

\* attestations of the committees of the slot before s, of two slots and
\* of an epoch before: of the first committee and of one the slot has not,
\* with either justified checkpoint of s as source, and with one bit per
\* member or one more
attestations_of_slot(context, s, slot) ==
    {Attestation([k \in 1..(Len(get_beacon_committee(context, slot, 0).committee) + more)
                     |-> TRUE],
                 AttestationData(slot, index, get_block_root_at_slot(s, slot), source,
                                 Checkpoint(compute_epoch_at_slot(slot),
                                            get_block_root(s, compute_epoch_at_slot(slot)))),
                 TRUE) :
        index \in {0, get_committee_count_at_slot(context, slot).count},
        source \in {s.current_justified_checkpoint, s.previous_justified_checkpoint},
        more \in {0, 1}}

OfferedAttestations(context, s) ==
    UNION {attestations_of_slot(context, s, slot) :
              slot \in {s.slot - back : back \in {1, 2, SLOTS_PER_EPOCH}} \cap Nat}

\* the PendingAttestation of an attestation included in a block of s
pending_of(context, s, attestation) ==
    [aggregation_bits |-> attestation.aggregation_bits,
     data |-> attestation.data,
     inclusion_delay |-> s.slot - attestation.data.slot,
     proposer_index |-> context.proposers[(s.slot % SLOTS_PER_EPOCH) + 1]]

\* after is s with one PendingAttestation more in the list of the target
\* epoch of the attestation, whose source is the justified checkpoint of
\* that list
appended_to_its_list(context, s, attestation, after) ==
    IF attestation.data.target.epoch = compute_epoch_at_slot(s.slot)
    THEN /\ attestation.data.source = s.current_justified_checkpoint
         /\ after = [s EXCEPT !.current_epoch_attestations =
                                  s.current_epoch_attestations
                                     \o <<pending_of(context, s, attestation)>>]
    ELSE /\ attestation.data.source = s.previous_justified_checkpoint
         /\ after = [s EXCEPT !.previous_epoch_attestations =
                                  s.previous_epoch_attestations
                                     \o <<pending_of(context, s, attestation)>>]

\* C28: an accepted attestation appends one PendingAttestation, of
\* inclusion_delay state.slot - data.slot and of the proposer of state.slot,
\* to current_epoch_attestations when its target is the current epoch and
\* its source the current justified checkpoint, to
\* previous_epoch_attestations when its target is another epoch and its
\* source the previous justified checkpoint, and nothing else changes; an
\* attestation of a committee index the slot has not, or with a number of
\* bits other than the size of the committee, is refused.
C28_AttestationAppended ==
    \A attestation \in OfferedAttestations(ctx, state) :
        LET result == process_attestation(ctx, state, attestation)
            data == attestation.data
        IN /\ result.ok => appended_to_its_list(ctx, state, attestation, result.state)
           /\ data.index >= get_committee_count_at_slot(ctx, data.slot).count => ~result.ok
           /\ Len(attestation.aggregation_bits)
                 # Len(get_beacon_committee(ctx, data.slot, 0).committee) => ~result.ok

\* the block of the slot has included the attestation of the slot before,
\* which joined current_epoch_attestations, and an attestation of two slots
\* before, of the epoch before, would join previous_epoch_attestations
C28_EitherListJoined ==
    /\ last.op = "process_block" /\ last.ok
    /\ state.current_epoch_attestations # <<>>
    /\ state.current_epoch_attestations[Len(state.current_epoch_attestations)].data.slot
          = state.slot - 1
    /\ \E attestation \in OfferedAttestations(ctx, state) :
          /\ process_attestation(ctx, state, attestation).ok
          /\ attestation.data.target.epoch # compute_epoch_at_slot(state.slot)
          /\ Len(process_attestation(ctx, state, attestation).state.previous_epoch_attestations)
                = Len(state.previous_epoch_attestations) + 1

(***************************************************************************)
(* Properties of the exit and activation queues, under ChurnSpec            *)
(***************************************************************************)

\* the validators of s that are active in its epoch
currently_active(s) ==
    {k \in DOMAIN s.validators :
        /\ s.validators[k].activation_epoch <= compute_epoch_at_slot(s.slot)
        /\ compute_epoch_at_slot(s.slot) < s.validators[k].exit_epoch}

\* q0: the later of compute_activation_exit_epoch(current_epoch) and the
\* largest exit epoch set
queue_epoch_0(s) ==
    LET epochs == {compute_activation_exit_epoch(compute_epoch_at_slot(s.slot))}
                     \cup ({s.validators[k].exit_epoch : k \in DOMAIN s.validators}
                              \ {FAR_FUTURE_EPOCH})
    IN CHOOSE q0 \in epochs : \A epoch \in epochs : epoch <= q0

\* q: the epoch after q0 when q0 has churn_limit exits already
queue_epoch(s) ==
    LET limit == IF MIN_PER_EPOCH_CHURN_LIMIT >= Cardinality(currently_active(s)) \div CHURN_LIMIT_QUOTIENT
                 THEN MIN_PER_EPOCH_CHURN_LIMIT
                 ELSE Cardinality(currently_active(s)) \div CHURN_LIMIT_QUOTIENT
    IN IF Cardinality(leaving_at(s, queue_epoch_0(s))) >= limit
       THEN queue_epoch_0(s) + 1 ELSE queue_epoch_0(s)

\* C29: initiate_validator_exit(index) returns the state as it is when the
\* validator has an exit epoch, so that a second call changes nothing;
\* otherwise it sets exit_epoch = q and
\* withdrawable_epoch = q + MIN_VALIDATOR_WITHDRAWABILITY_DELAY of that
\* validator and nothing else, where q is q0 + 1 if as many validators as
\* the churn limit of the currently active validators exit at q0, else q0,
\* and q0 is the later of compute_activation_exit_epoch(current_epoch) and
\* the largest exit epoch set.
C29_InitiateValidatorExit ==
    \A index \in all_indices(state) :
        LET after == initiate_validator_exit(ctx, state, index)
        IN /\ Len(ctx.current_shuffling.active_indices) = Cardinality(currently_active(state))
           /\ initiate_validator_exit(ctx, after, index) = after
           /\ IF validator_at(state, index).exit_epoch # FAR_FUTURE_EPOCH
              THEN after = state
              ELSE after = [state EXCEPT !.validators[index + 1] =
                               [@ EXCEPT !.exit_epoch = queue_epoch(state),
                                         !.withdrawable_epoch =
                                             queue_epoch(state)
                                                + MIN_VALIDATOR_WITHDRAWABILITY_DELAY]]

\* after a block with exits, q0 has as many exits as the churn limit: a
\* validator without exit epoch would exit an epoch later, and one that has
\* its exit epoch is left alone
C29_QueueEpochFull ==
    /\ last.op = "process_block" /\ last.ok
    /\ queue_epoch(state) = queue_epoch_0(state) + 1
    /\ \E index \in all_indices(state) :
          /\ validator_at(state, index).exit_epoch = FAR_FUTURE_EPOCH
          /\ validator_at(initiate_validator_exit(ctx, state, index), index).exit_epoch
                = queue_epoch_0(state) + 1
    /\ \E index \in all_indices(state) :
          /\ validator_at(state, index).exit_epoch # FAR_FUTURE_EPOCH
          /\ initiate_validator_exit(ctx, state, index) = state

(***************************************************************************)
(* Properties of the activation queue, under ActivationSpec                 *)
(***************************************************************************)

\* (activation_eligibility_epoch, index) of a is before that of b
queued_before(s, a, b) ==
    \/ validator_at(s, a).activation_eligibility_epoch
          < validator_at(s, b).activation_eligibility_epoch
    \/ /\ validator_at(s, a).activation_eligibility_epoch
             = validator_at(s, b).activation_eligibility_epoch
       /\ a < b

\* queue holds the validators of s that wait for their activation and are
\* eligible at current_epoch, each once, by (activation_eligibility_epoch,
\* index)
queue_of(s, queue, current_epoch) ==
    /\ Range(queue) = {index \in all_indices(s) :
                          /\ validator_at(s, index).activation_epoch = FAR_FUTURE_EPOCH
                          /\ validator_at(s, index).activation_eligibility_epoch
                                <= current_epoch}
    /\ \A j \in DOMAIN queue, k \in DOMAIN queue :
          j < k => queued_before(s, queue[j], queue[k])

\* the positions of queue whose validator is eligible after finality_epoch
beyond_finality(s, queue, finality_epoch) ==
    {k \in DOMAIN queue :
        validator_at(s, queue[k]).activation_eligibility_epoch > finality_epoch}

\* the validators at the positions of queue up to churn_limit that precede
\* every position beyond finality
leading_entries(s, queue, churn_limit, finality_epoch) ==
    {queue[k] : k \in {j \in DOMAIN queue :
                          /\ j <= churn_limit
                          /\ \A b \in beyond_finality(s, queue, finality_epoch) : j < b}}

\* the validators whose activation_epoch is set between s and after
activation_received(s, after) ==
    {index \in all_indices(s) :
        validator_at(after, index).activation_epoch
           # validator_at(s, index).activation_epoch}

\* C30: in one epoch transition indices_to_maybe_activate is ordered by
\* (activation_eligibility_epoch, index); the validators that receive an
\* activation epoch are the entries among the first churn_limit that
\* precede the first entry eligible after the finalized epoch of the state
\* the transition returns, they receive
\* compute_activation_exit_epoch(current_epoch), and every entry after that
\* first one is eligible after the finalized epoch too.
C30_ActivationQueue ==
    (last.op = "process_epoch" /\ last.ok)
       => LET queue == last.process.indices_to_maybe_activate
              finality_epoch == last.after.finalized_checkpoint.epoch
              beyond == beyond_finality(last.before, queue, finality_epoch)
          IN /\ queue_of(last.before, queue, last.process.current_epoch)
             /\ activation_received(last.before, last.after)
                   = leading_entries(last.before, queue, last.process.churn_limit,
                                     finality_epoch)
             /\ \A index \in activation_received(last.before, last.after) :
                   validator_at(last.after, index).activation_epoch
                      = compute_activation_exit_epoch(last.process.current_epoch)
             /\ \A k \in DOMAIN queue :
                   (\E b \in beyond : b < k) => k \in beyond

\* the transition has moved the finalized epoch and has activated one
\* validator, eligible after the finalized epoch of before and not the one
\* of the lowest index that waited; the second entry of the queue, within
\* churn_limit, is eligible after the finalized epoch and so is the third
C30_ActivatedOutOfIndexOrder ==
    /\ last.op = "process_epoch" /\ last.ok
    /\ last.after.finalized_checkpoint.epoch > last.before.finalized_checkpoint.epoch
    /\ Cardinality(activation_received(last.before, last.after)) = 1
    /\ last.process.churn_limit = 2
    /\ Len(last.process.indices_to_maybe_activate) = MaxQueue
    /\ \E index \in activation_received(last.before, last.after) :
          /\ index > Len(GenesisPubkeys)
          /\ validator_at(last.before, index).activation_eligibility_epoch
                > last.before.finalized_checkpoint.epoch

(***************************************************************************)
(* Properties of the attester statuses and of the rewards, under ChainSpec *)
(***************************************************************************)

\* the positions of attestations whose attestation the validator index
\* takes part in
participations(context, attestations, index) ==
    {k \in DOMAIN attestations :
        LET committee == get_beacon_committee(context, attestations[k].data.slot,
                                              attestations[k].data.index).committee
        IN \E i \in DOMAIN committee :
              committee[i] = index /\ attestations[k].aggregation_bits[i]}

\* the first position of attestations, among those of positions, with the
\* least inclusion_delay
earliest_inclusion(attestations, positions) ==
    CHOOSE k \in positions :
        \A other \in positions :
            \/ attestations[k].inclusion_delay < attestations[other].inclusion_delay
            \/ /\ attestations[k].inclusion_delay = attestations[other].inclusion_delay
               /\ k <= other

\* status is as the previous-epoch attestations of s make it
earliest_recorded(context, s, status, index) ==
    LET attestations == s.previous_epoch_attestations
        positions == participations(context, attestations, index)
    IN IF positions = {} THEN status.proposer_index = -1
       ELSE /\ status.inclusion_delay
                  = attestations[earliest_inclusion(attestations, positions)].inclusion_delay
            /\ status.proposer_index
                  = attestations[earliest_inclusion(attestations, positions)].proposer_index

\* C31: after prepare_epoch_process_state the status of a validator that
\* takes part in an attestation of previous_epoch_attestations has the
\* least inclusion_delay of these attestations and the proposer_index of
\* the first of them with that delay; the status of a validator in none of
\* them has proposer_index = -1.
C31_EarliestInclusion ==
    LET prepared == prepare_epoch_process_state(ctx, state)
    IN prepared.ok
          => \A index \in all_indices(state) :
                earliest_recorded(ctx, state, prepared.process.statuses[index + 1], index)

\* base_reward and proposer_reward of a status
base_reward_of(process, status) ==
    ((status.validator.effective_balance * BASE_REWARD_FACTOR)
        \div integer_squareroot(Max(process.total_active_stake, EFFECTIVE_BALANCE_INCREMENT)))
       \div BASE_REWARDS_PER_EPOCH

proposer_reward_of(process, status) ==
    base_reward_of(process, status) \div PROPOSER_REWARD_QUOTIENT

\* the status of an eligible unslashed validator
eligible_unslashed(status) ==
    HasBit(status.flags, FLAG_ELIGIBLE_ATTESTER) /\ HasBit(status.flags, FLAG_UNSLASHED)

\* the status of a validator that attested with matching source, target and
\* head in the previous epoch, included after one slot
optimal(status) ==
    /\ eligible_unslashed(status)
    /\ HasBit(status.flags, FLAG_PREV_SOURCE_ATTESTER)
    /\ HasBit(status.flags, FLAG_PREV_TARGET_ATTESTER)
    /\ HasBit(status.flags, FLAG_PREV_HEAD_ATTESTER)
    /\ status.inclusion_delay = 1

\* the proposer rewards paid to the validator of position i for the
\* attestations of others, and of itself, that its blocks included first
proposer_credit(process, i) ==
    SumSeq([j \in DOMAIN process.statuses |->
               IF /\ HasBit(process.statuses[j].flags, FLAG_PREV_SOURCE_ATTESTER)
                  /\ HasBit(process.statuses[j].flags, FLAG_UNSLASHED)
                  /\ process.statuses[j].proposer_index = i - 1
               THEN proposer_reward_of(process, process.statuses[j]) ELSE 0])

\* the rewards of the four Deltas that credit position i
attestation_rewards(res, i) ==
    res.source.rewards[i] + res.target.rewards[i] + res.head.rewards[i]
       + res.inclusion_delay.rewards[i]

\* the penalties of the four Deltas that charge position i
attestation_penalties(res, i) ==
    res.source.penalties[i] + res.target.penalties[i] + res.head.penalties[i]
       + res.inclusion_delay.penalties[i]

in_leak(process, s) ==
    process.prev_epoch - s.finalized_checkpoint.epoch > MIN_EPOCHS_TO_INACTIVITY_PENALTY

\* the charge of an eligible validator in a leak: the full rewards, and the
\* inactivity penalty of one without PREV_TARGET or slashed
leak_charge(process, s, status) ==
    (base_reward_of(process, status) * BASE_REWARDS_PER_EPOCH
        - proposer_reward_of(process, status))
       + (IF HasBit(status.flags, FLAG_PREV_TARGET_ATTESTER)
             /\ HasBit(status.flags, FLAG_UNSLASHED)
          THEN 0
          ELSE (status.validator.effective_balance
                   * (process.prev_epoch - s.finalized_checkpoint.epoch))
                  \div INACTIVITY_PENALTY_QUOTIENT)

\* the Deltas of res are, in a leak, as stated for the statuses of process;
\* credited tells whether the proposer rewards a validator earned are set
\* apart from its rewards
leak_deltas(process, s, res, credited) ==
    in_leak(process, s)
       => \A i \in DOMAIN process.statuses :
             LET status == process.statuses[i]
             IN /\ HasBit(status.flags, FLAG_ELIGIBLE_ATTESTER)
                     => res.inclusion_delay.penalties[i] = leak_charge(process, s, status)
                /\ optimal(status)
                     => /\ attestation_penalties(res, i)
                             = base_reward_of(process, status) * BASE_REWARDS_PER_EPOCH
                                  - proposer_reward_of(process, status)
                        /\ attestation_rewards(res, i)
                              - (IF credited THEN proposer_credit(process, i) ELSE 0)
                             = attestation_penalties(res, i)

C33_CheckpointsNeverGoBack ==
    last.op = "process_justification_and_finalization"
       => /\ last.after.finalized_checkpoint.epoch
                >= last.before.finalized_checkpoint.epoch
          /\ last.after.current_justified_checkpoint.epoch
                >= last.before.current_justified_checkpoint.epoch

\* after an epoch was finalized, a step in which no finalization rule
\* matches and no epoch is justified has left both checkpoints as they were
C33_FinalizedKept ==
    /\ last.op = "process_justification_and_finalization" /\ last.ok
    /\ last.before.finalized_checkpoint.epoch > GENESIS_EPOCH
    /\ last.after.finalized_checkpoint = last.before.finalized_checkpoint
    /\ last.after.current_justified_checkpoint = last.before.current_justified_checkpoint
    /\ last.after.justification_bits = <<FALSE, FALSE, FALSE, FALSE>>

(***************************************************************************)
(* Properties of the rotated context, under ExitSpec                       *)
(***************************************************************************)

\* the fields that load_state and rotate_epochs compute from the state
ShufflingFields == {"previous_shuffling", "current_shuffling", "next_shuffling", "proposers"}

\* the indices, in order, of the validators of s active in epoch
active_in(s, epoch) ==
    SortedSeq({index \in all_indices(s) :
                  /\ validator_at(s, index).activation_epoch <= epoch
                  /\ epoch < validator_at(s, index).exit_epoch})

\* context holds what load_state computes from s on a new EpochsContext
as_freshly_loaded(context, s) ==
    /\ load_state(EpochsContext, s).ok
    /\ \A field \in ShufflingFields :
          context[field] = load_state(EpochsContext, s).ctx[field]
    /\ context.current_shuffling.active_indices
          = active_in(s, compute_epoch_at_slot(s.slot))

\* C34: after any sequence of process_slots calls and successful
\* process_block calls from load_state, the previous, current and next
\* shufflings and the proposers of the context are those that load_state
\* gives a new EpochsContext for the state reached, and the active_indices
\* of the current shuffling are the validators of the state with
\* activation_epoch <= current_epoch < exit_epoch.
C34_RotationAgreesWithLoad ==
    as_freshly_loaded(ctx, state)

(***************************************************************************)
(* Properties of the ejections, under ChurnSpec                            *)
(***************************************************************************)

\* s where the effective balance of the validators of low has come down to
\* EJECTION_BALANCE
with_low_balance(s, low) ==
    [s EXCEPT !.validators =
        [k \in DOMAIN @ |->
            IF (k - 1) \in low THEN [@[k] EXCEPT !.effective_balance = EJECTION_BALANCE]
            ELSE @[k]]]

\* initiate_validator_exit for the indices of a list, one after another
RECURSIVE exit_one_by_one(_, _, _)
exit_one_by_one(context, s, indices) ==
    IF indices = <<>> THEN s
    ELSE exit_one_by_one(context, initiate_validator_exit(context, s, Head(indices)),
                         Tail(indices))

\* the ejected validators of s have the exit and withdrawable epochs in the
\* registry after process_registry_updates that they have after
\* initiate_validator_exit for each of them in ascending order
ejected_as_exited(context, s, prepared) ==
    prepared.ok
       => LET to_eject == prepared.process.indices_to_eject
              updated == process_registry_updates(context, prepared.process, s)
              exited == exit_one_by_one(context, s, SortedSeq(Range(to_eject)))
          IN \A index \in Range(to_eject) :
                /\ validator_at(updated, index).exit_epoch
                      = validator_at(exited, index).exit_epoch
                /\ validator_at(updated, index).withdrawable_epoch
                      = validator_at(exited, index).withdrawable_epoch
                /\ validator_at(updated, index).exit_epoch # FAR_FUTURE_EPOCH

\* C35: the ejection step of process_registry_updates, with the
\* exit_queue_end, exit_queue_end_churn and churn_limit of
\* prepare_epoch_process_state, gives every ejected validator the exit_epoch
\* and withdrawable_epoch that initiate_validator_exit gives it when called
\* for the indices_to_eject in ascending order on the same state; checked at
\* the last slot of every epoch for every set of validators whose effective
\* balance is down to EJECTION_BALANCE.
C35_EjectionAsExit ==
    (state.slot + 1) % SLOTS_PER_EPOCH = 0
       => \A low \in SUBSET all_indices(state) :
             ejected_as_exited(ctx, with_low_balance(state, low),
                 prepare_epoch_process_state(ctx, with_low_balance(state, low)))

\* at the last slot of an epoch the last epoch of the exit queue has one
\* exit and two validators are to be ejected: one joins that epoch, the
\* other the epoch after, and so they do by initiate_validator_exit
C35_EjectedOverTwoEpochs ==
    /\ (state.slot + 1) % SLOTS_PER_EPOCH = 0
    /\ \E low \in SUBSET all_indices(state) :
          LET s == with_low_balance(state, low)
              prepared == prepare_epoch_process_state(ctx, s)
              to_eject == prepared.process.indices_to_eject
              updated == process_registry_updates(ctx, prepared.process, s)
          IN /\ prepared.ok
             /\ Len(to_eject) = 2
             /\ prepared.process.exit_queue_end_churn = 1
             /\ validator_at(updated, to_eject[1]).exit_epoch
                   = prepared.process.exit_queue_end
             /\ validator_at(updated, to_eject[2]).exit_epoch
                   = prepared.process.exit_queue_end + 1
             /\ validator_at(exit_one_by_one(ctx, s, to_eject), to_eject[2]).exit_epoch
                   = prepared.process.exit_queue_end + 1


(***************************************************************************)
(* Properties of the slashings of one validator, under ChainSpec.          *)
(***************************************************************************)
\* blocks with two slashings that name validator 1: two proposer
\* slashings, a proposer slashing and an attester slashing of validator 1
\* alone or with validator 2, and two attester slashings
RepeatedSlashings(context, s) ==
    LET body == [HonestBody(context, s) EXCEPT !.attestations = <<>>]
        proposer_slashing == ProposerSlashing(1, TRUE, TRUE, TRUE)
        double_vote(indices) ==
            AttesterSlashing(IndexedAttestation(indices, DoubleVote(0), TRUE),
                             IndexedAttestation(indices, DoubleVote(1), TRUE))
    IN {BlockAt(context, s, [body EXCEPT !.proposer_slashings = pair[1],
                                          !.attester_slashings = pair[2]]) :
           pair \in {<<<<proposer_slashing, proposer_slashing>>, <<>>>>,
                     <<<<proposer_slashing>>, <<double_vote(<<1>>)>>>>,
                     <<<<proposer_slashing>>, <<double_vote(<<1, 2>>)>>>>,
                     <<<<>>, <<double_vote(<<1>>), double_vote(<<1>>)>>>>,
                     <<<<>>, <<double_vote(<<1, 2>>), double_vote(<<0, 1>>)>>>>}}

\* the validators of before that are slashed in after and not in before
newly_slashed(before, after) ==
    {index \in all_indices(before) :
        ~validator_at(before, index).slashed /\ validator_at(after, index).slashed}

\* the sum of the effective balances of the validators of indices
RECURSIVE effective_balances(_, _)
effective_balances(s, indices) ==
    IF indices = {} THEN 0
    ELSE LET index == CHOOSE index \in indices : TRUE
         IN validator_at(s, index).effective_balance
               + effective_balances(s, indices \ {index})

\* no slashed flag is reset from before to after
slashed_kept(before, after) ==
    \A index \in all_indices(before) :
        validator_at(before, index).slashed => validator_at(after, index).slashed

\* what a block does: the slashings vector grows by the effective balance
\* of each validator that became slashed, once
slashed_once(before, after) ==
    /\ slashed_kept(before, after)
    /\ SumSeq(after.slashings) - SumSeq(before.slashings)
          = effective_balances(before, newly_slashed(before, after))

\* what process_slots does: nobody becomes slashed and an entry of the
\* slashings vector stays or is cleared
nobody_slashed(before, after) ==
    /\ slashed_kept(before, after)
    /\ newly_slashed(before, after) = {}
    /\ \A k \in DOMAIN before.slashings :
          after.slashings[k] \in {before.slashings[k], 0}

prev_source_attesters(prepared) ==
    {i \in DOMAIN prepared.process.statuses :
        HasBit(prepared.process.statuses[i].flags, FLAG_PREV_SOURCE_ATTESTER)}

\* the record of the status names a validator and a delay of a slot or more
inclusion_recorded(s, status) ==
    /\ status.proposer_index \in all_indices(s)
    /\ status.inclusion_delay >= MIN_ATTESTATION_INCLUSION_DELAY
    /\ status.inclusion_delay >= 1

\* attestations of the first committee of the slot of s and of each slot
\* up to an epoch and a slot before it
LateAttestations(context, s) ==
    {attestation \in UNION {attestations_of_slot(context, s, slot) :
                               slot \in {s.slot - back : back \in 0..(SLOTS_PER_EPOCH + 1)}
                                           \cap Nat} :
        attestation.data.index = 0}

\* every status of prepared with FLAG_PREV_SOURCE_ATTESTER has its record
all_recorded(s, prepared) ==
    prepared.ok
       => \A i \in prev_source_attesters(prepared) :
             inclusion_recorded(s, prepared.process.statuses[i])

\* C37: in every epoch transition of a chain built by process_slots and
\* process_block, every status with FLAG_PREV_SOURCE_ATTESTER has the index
\* of a validator as proposer_index (never -1) and inclusion_delay >= 1, so
\* the inclusion-delay reward indexes the proposer's entry and divides by a
\* positive delay; so it is when the block of the last slot of the epoch
\* includes one attestation more, of any earlier slot, and an attestation
\* of the slot of the block itself is refused.
C37_InclusionRecorded ==
    (state.slot + 1) % SLOTS_PER_EPOCH = 0
       => /\ all_recorded(state, prepare_epoch_process_state(ctx, state))
          /\ \A attestation \in LateAttestations(ctx, state) :
                LET result == process_attestation(ctx, state, attestation)
                IN /\ attestation.data.slot = state.slot => ~result.ok
                   /\ result.ok
                         => all_recorded(result.state,
                                prepare_epoch_process_state(ctx, result.state))

\* at the last slot of an epoch an attestation of the epoch before is
\* included after more than one slot, and a validator that had not attested
\* gets this delay and the proposer of the slot as its record
C37_LateInclusionRecorded ==
    /\ (state.slot + 1) % SLOTS_PER_EPOCH = 0
    /\ \E attestation \in LateAttestations(ctx, state) :
          LET result == process_attestation(ctx, state, attestation)
              before == prepare_epoch_process_state(ctx, state)
              after == prepare_epoch_process_state(ctx, result.state)
          IN /\ result.ok /\ before.ok /\ after.ok
             /\ state.slot - attestation.data.slot > 1
             /\ \E i \in prev_source_attesters(after) \ prev_source_attesters(before) :
                   /\ after.process.statuses[i].inclusion_delay
                         = state.slot - attestation.data.slot
                   /\ after.process.statuses[i].proposer_index
                         = get_beacon_proposer(ctx, state.slot).index
             /\ prev_source_attesters(before) # {}


(***************************************************************************)
(* Properties of the order of activation, under ChurnSpec.                 *)
(***************************************************************************)
\* the validators of s without an activation epoch
awaiting(s) ==
    {index \in all_indices(s) : validator_at(s, index).activation_epoch = FAR_FUTURE_EPOCH}

\* those of them whose eligibility epoch is set
in_line(s) ==
    {index \in awaiting(s) :
        validator_at(s, index).activation_eligibility_epoch # FAR_FUTURE_EPOCH}

\* s where the validators in line became eligible an epoch earlier or later
\* as shift says (a deposit topped up later, or complete earlier)
with_eligibility(s, shift) ==
    [s EXCEPT !.validators =
        [k \in DOMAIN @ |->
            IF (k - 1) \in DOMAIN shift
            THEN [@[k] EXCEPT !.activation_eligibility_epoch = Max(0, @ + shift[k - 1])]
            ELSE @[k]]]

\* from before to after no validator receives an activation epoch while one
\* that is before it by (activation_eligibility_epoch, index) has none
first_in_first_out(before, after) ==
    \A a \in awaiting(before), b \in awaiting(before) :
        (/\ queued_before(before, a, b)
         /\ validator_at(after, b).activation_epoch # FAR_FUTURE_EPOCH)
           => validator_at(after, a).activation_epoch # FAR_FUTURE_EPOCH

\* a place in the line is kept until the activation
place_kept(before, after) ==
    \A index \in in_line(before) :
        validator_at(after, index).activation_eligibility_epoch
           = validator_at(before, index).activation_eligibility_epoch

\* C38: the activation queue is first-in first-out.  Along every chain, a
\* validator keeps its (activation_eligibility_epoch, index) while it awaits
\* activation and no step gives an activation epoch to a validator while
\* one before it has none; and at the last slot of every epoch so does the
\* epoch transition when the eligibility epochs of the waiting validators
\* are an epoch earlier or later, in any combination.
C38_FirstInFirstOut ==
    /\ []((state.slot + 1) % SLOTS_PER_EPOCH = 0
             => \A shift \in [in_line(state) -> {-1, 0, 1}] :
                   LET s == with_eligibility(state, shift)
                       result == process_epoch(ctx, s)
                   IN result.ok => first_in_first_out(s, result.state))
    /\ [][first_in_first_out(state, state') /\ place_kept(state, state')]_vars

\* at the last slot of an epoch two validators wait, the one of the lower
\* index eligible an epoch later than the other, both at a finalized epoch:
\* the transition activates the other one and not the one of the lower index
C38_LaterIndexFirst ==
    /\ (state.slot + 1) % SLOTS_PER_EPOCH = 0
    /\ \E shift \in [in_line(state) -> {-1, 0, 1}] :
          LET s == with_eligibility(state, shift)
              result == process_epoch(ctx, s)
          IN /\ result.ok
             /\ \E a \in in_line(s), b \in in_line(s) :
                   /\ b > a
                   /\ queued_before(s, b, a)
                   /\ validator_at(result.state, b).activation_epoch # FAR_FUTURE_EPOCH
                   /\ validator_at(result.state, a).activation_epoch = FAR_FUTURE_EPOCH
                   /\ validator_at(s, a).activation_eligibility_epoch
                         <= result.state.finalized_checkpoint.epoch


(***************************************************************************)
(* Properties of the correlation penalty, under SlashSpec.                 *)
(***************************************************************************)
\* the epoch of the transition that is to penalise the validator
penalty_epoch(validator) ==
    validator.withdrawable_epoch - (EPOCHS_PER_SLASHINGS_VECTOR \div 2)

\* C39: every slashed validator has the withdrawable_epoch the slashing
\* left it with; the epoch transition whose current_epoch is
\* withdrawable_epoch - EPOCHS_PER_SLASHINGS_VECTOR / 2, an epoch after the
\* epoch of the slashing, lowers its balance in process_slashings and no
\* other transition does; a validator that is not slashed is never
\* penalised.
C39_PenalisedOnce ==
    \A i \in Slashable :
        LET validator == validator_at(state, i)
            history == history_of(last)
        IN IF ~validator.slashed THEN history.penalised_in[i] = {}
           ELSE /\ history.slashed_in[i] >= 0
                /\ validator.withdrawable_epoch = history.withdrawable_at[i]
                /\ penalty_epoch(validator) > history.slashed_in[i]
                /\ history.penalised_in[i] \subseteq {penalty_epoch(validator)}
                /\ compute_epoch_at_slot(state.slot) > penalty_epoch(validator)
                      => history.penalised_in[i] = {penalty_epoch(validator)}

\* two validators slashed in different epochs were penalised, each in its
\* own epoch, and the chain is two epochs past the later penalty
C39_TwoPenalties ==
    \E i \in Slashable, j \in Slashable :
        /\ validator_at(state, i).slashed /\ validator_at(state, j).slashed
        /\ history_of(last).slashed_in[i] < history_of(last).slashed_in[j]
        /\ history_of(last).penalised_in[i] = {penalty_epoch(validator_at(state, i))}
        /\ history_of(last).penalised_in[j] = {penalty_epoch(validator_at(state, j))}
        /\ compute_epoch_at_slot(state.slot) > penalty_epoch(validator_at(state, j))


(***************************************************************************)
(* Properties of the stored attestations, under ChainSpec.                 *)
(***************************************************************************)
\* the attestations of a list have epoch as target, were included after one
\* slot to SLOTS_PER_EPOCH slots, and their committee is in the shufflings
\* of context
stored_for(context, attestations, epoch) ==
    \A k \in DOMAIN attestations :
        /\ attestations[k].data.target.epoch = epoch
        /\ 1 <= attestations[k].inclusion_delay
        /\ attestations[k].inclusion_delay <= SLOTS_PER_EPOCH
        /\ get_beacon_committee(context, attestations[k].data.slot,
                                attestations[k].data.index).ok

stored_in_window(context, s) ==
    /\ stored_for(context, s.current_epoch_attestations, compute_epoch_at_slot(s.slot))
    /\ stored_for(context, s.previous_epoch_attestations,
                  Max(compute_epoch_at_slot(s.slot) - 1, GENESIS_EPOCH))

\* from before to after, over one epoch boundary the list of the current
\* epoch becomes the list of the previous epoch and is emptied; over more
\* than one both lists are empty
lists_rotated(before, after) ==
    LET crossed == compute_epoch_at_slot(after.slot) - compute_epoch_at_slot(before.slot)
    IN /\ crossed = 1
          => /\ after.previous_epoch_attestations = before.current_epoch_attestations
             /\ after.current_epoch_attestations = <<>>
       /\ crossed > 1
          => /\ after.previous_epoch_attestations = <<>>
             /\ after.current_epoch_attestations = <<>>

\* C40: in every reachable state the entries of current_epoch_attestations
\* have the current epoch as target, those of previous_epoch_attestations
\* the previous epoch, all with 1 <= inclusion_delay <= SLOTS_PER_EPOCH and
\* a committee in the cached shufflings; so it is after one more accepted
\* attestation of any slot up to SLOTS_PER_EPOCH + 1 before the state's; and
\* process_slots moves the list of the current epoch to the previous one
\* and empties it at each epoch boundary.
C40_StoredInWindow ==
    /\ [](/\ stored_in_window(ctx, state)
          /\ \A attestation \in LateAttestations(ctx, state) :
                LET result == process_attestation(ctx, state, attestation)
                IN result.ok => stored_in_window(result.ctx, result.state))
    /\ [][lists_rotated(state, state')]_vars

\* both lists hold an attestation, the one of the previous epoch moved there
\* by the epoch transition, and an attestation SLOTS_PER_EPOCH slots old is
\* accepted into the list of the previous epoch
C40_BothListsFilled ==
    /\ state.current_epoch_attestations # <<>>
    /\ state.previous_epoch_attestations # <<>>
    /\ \E attestation \in LateAttestations(ctx, state) :
          LET result == process_attestation(ctx, state, attestation)
          IN /\ result.ok
             /\ state.slot - attestation.data.slot = SLOTS_PER_EPOCH
             /\ Len(result.state.previous_epoch_attestations)
                   = Len(state.previous_epoch_attestations) + 1

====
